---- MODULE Spec2Model ----
(***************************************************************************)
(* Model of the incremental ingestion pipeline of medla-projects: the      *)
(* fetch-cases coordinator (app/routers/projects.py), the collector's      *)
(* fetch_data (app/services/data_collectors/lansstyrelsen_collector.py),   *)
(* the SQLAlchemy session it writes through (app/models/database.py) and   *)
(* the in-memory task registry that publishes progress.                    *)
(***************************************************************************)
EXTENDS Integers, Sequences, FiniteSets, TLC

(***************************************************************************)
(* Bounds of the model.                                                    *)
(***************************************************************************)
MaxRuns == 2        \* coordinator runs started in one behaviour
MaxTime == 2        \* the wall clock, in whole seconds, stops advancing here
MaxDbFaults == 2    \* injected store failures (a query or a commit that raises)
MaxPageLen == 2     \* rows of one upstream result page
MaxLpf == 2         \* largest last_page_fetched drawn for the ordering inputs
MaxOrdLen == 3      \* longest list of tuples drawn for the ordering inputs
MaxDetCalls == 2    \* detail fetches of one Case suspended at the same time
MaxDetOps == 6      \* detail-fetch operations started in one behaviour
MaxPageNo == 2      \* largest page number in the span of a pagination footer
MaxLinks == 2       \* links in a pagination footer
MaxRows == 2        \* data rows of one search-result table
MaxBatch == 4       \* cases selected by one categorization batch
MaxCommitFaults == 1   \* store failures injected into the commits of one batch

(***************************************************************************)
(* Program constants.                                                      *)
(***************************************************************************)
BatchSize == 50     \* len(current_batch) >= 50 triggers a commit
PageSize == 50      \* remaining_pages * 50 in the estimate
TotalPagesReported == 1   \* "total_pages": 1 in fetch_data's pagination
NULL == 0           \* a NULL column / Python None for timestamps and counters
RetryCeiling == 5   \* if case.details_fetch_attempts < 5
max_retries == 3    \* max_retries = 3 in fetch_case_details
MinCells == 8       \* if len(cells) < 8: continue
ChunkSize == 3      \* batch_size = 3: tasks gathered at a time

\* lan_list = list(collector.lan_queries.keys()); the dict is written in
\* ascending name order, so a partition's rank in it is its name's rank.
lan_list == <<"Blekinge", "Dalarna">>
Lans == {lan_list[n] : n \in 1..Len(lan_list)}
LanRank(lan) == CHOOSE n \in 1..Len(lan_list) : lan_list[n] = lan

\* The case numbers upstream lists.  One number is enough for a row to be
\* sighted again: on the same page, in the other lan, in a later run.
Ids == {"831-2024"}
Vals == {1, 2}      \* versions of a row's list fields (title, status, date, ...)

(***************************************************************************)
(* The store's rows.                                                       *)
(***************************************************************************)
\* models.Case: the columns the coordinator writes; ex = the row exists.
NoCase == [ex |-> FALSE, val |-> 0, lan |-> "", last_updated_from_source |-> NULL,
           details_fetched |-> FALSE, details_fetch_attempts |-> 0]

\* models.FetchStatus; a row inserted without last_page_fetched / error_count
\* gets the column default 0.
NoStatus == [ex |-> FALSE, last_successful_fetch |-> NULL, last_page_fetched |-> 0,
             error_count |-> 0, last_error |-> FALSE]

NewFetchStatus(lan, lsf, lpf, err, lasterr) ==
    [lan |-> lan, last_successful_fetch |-> lsf, last_page_fetched |-> lpf,
     error_count |-> err, last_error |-> lasterr]

StatusRow(s) == [ex |-> TRUE, last_successful_fetch |-> s.last_successful_fetch,
                 last_page_fetched |-> s.last_page_fetched,
                 error_count |-> s.error_count, last_error |-> s.last_error]

(***************************************************************************)
(* Upstream: what one GET of the search-result URL can produce.            *)
(***************************************************************************)
Rows == [id : Ids, val : Vals]
RECURSIVE SeqsUpTo(_, _)
SeqsUpTo(S, n) ==
    IF n = 0 THEN {<<>>}
    ELSE LET shorter == SeqsUpTo(S, n - 1)
         IN shorter \cup {Append(s, x) : s \in {q \in shorter : Len(q) = n - 1}, x \in S}
Pages == SeqsUpTo(Rows, MaxPageLen)

\* raise: aiohttp raises and fetch_data re-raises; non200: fetch_data returns [];
\* ok: the rows _parse_cases kept.
Outcomes == {[kind |-> "raise", rows |-> <<>>], [kind |-> "non200", rows |-> <<>>]}
            \cup {[kind |-> "ok", rows |-> p] : p \in Pages}


(***************************************************************************)
(* State.                                                                  *)
(***************************************************************************)
VARIABLES
    dbCases,          \* durable table cases: id -> row
    dbStatus,         \* durable table fetch_status: lan -> row
    sNew,             \* session: Case objects added and not yet flushed
    sDirty,           \* session: unflushed changes of persistent Case rows
    sNewSt,           \* session: FetchStatus objects added and not yet flushed
    sDirtySt,         \* session: unflushed changes of persistent FetchStatus rows
    sBroken,          \* session: a flush failed and no rollback() was issued
    pc,               \* where fetch_cases_background stands
    fetch_statuses,   \* the lans that had a FetchStatus row at line 218
    incomplete_lan,   \* list of (lan, status) tuples
    lan_page_info,    \* lans with cached pagination
    k,                \* index into lan_list (classification and update loops)
    i,                \* index into incomplete_lan
    status,           \* the local variable status: "none", "obj" or "new"
    current_page,
    result,           \* result['projects'] of the last fetch_data
    has_next,         \* result['pagination']['has_next'] of the last fetch_data
    total_processed,
    current_batch,    \* len(current_batch)
    total_cases,
    task,             \* background_tasks_status[task_id]
    now,              \* wall clock, whole seconds
    dbFaults,         \* injected store failures so far
    runs,             \* coordinator runs started so far
    requested,        \* history: lan -> page arguments of fetch_data, this run
    ckptAtStart,      \* history: the durable checkpoints when this run started
    afterCrash,       \* history: the previous run was killed
    pageMutations,    \* history: insert/update operations while reconciling result
    lastRecon,        \* history: the last reconciliation step
    unchangedPage,    \* history: every row of result is stored with the same content
    processedPage,    \* history: lan -> last page processed through line 351, this run
    regressed,        \* history: a published processed count went down
    attempted,        \* history: lans whose page loop was entered, this run
    lastFailure,      \* history: the last per-partition exception handled
    ordIn,            \* ordering check: the (lan, status) tuples to sort
    ordOut,           \* ordering check: the sorted list
    detCase,          \* detail fetch: the durable Case row's detail columns
    detCalls,         \* detail fetch: the calls suspended at their await
    detOps,           \* detail fetch: operations started so far
    detLast,          \* history: the last detail-fetch operation that ended
    detAnswer,        \* history: the last answer of POST /cases/{case_id}/fetch-details
    fdIn,             \* fetch_case_details: arguments and upstream answers
    fdOut,            \* fetch_case_details: what the call returned
    npIn,             \* _get_next_page_data: the markup of the page
    npOut,            \* _get_next_page_data: what the call returned or raised
    psIn,             \* _parse_cases: the markup of the page
    psOut,            \* _parse_cases: what the call returned
    catIn,            \* categorization: the collaborator's answer per selected case
    catPc,            \* categorization: where batch_categorize_with_progress stands
    catPos,           \* categorization: results of the gathered tasks consumed
    catCalls,         \* categorization: _categorize_case calls made so far
    catResults,       \* categorization: the results snapshot last yielded
    catInFlight,      \* categorization: the cases whose collaborator call is running
    catTasks,         \* categorization: per selected case, its calls and outcome
    catYields,        \* history: the snapshots yielded so far
    catCommitted,     \* categorization: the cases whose result is in the store
    catBroken,        \* categorization: a commit raised and no rollback() followed
    catFaultAt,       \* history: the rounds whose commit met a store failure
    faStore,          \* fetch_all_cases: the stored row of the listed Case
    faDirty,          \* fetch_all_cases: the session's changed copy of that row
    faBatch,          \* fetch_all_cases: current_batch, the new Case objects
    faStatus,         \* fetch_all_cases: the lan's FetchStatus row
    faIn,             \* fetch_all_cases: the cases fetch_cases returned
    faPos,            \* fetch_all_cases: cases of the list gone through
    faPc,             \* fetch_all_cases: "idle", "start", "loop", "status", "done"
    rcCase,           \* reconciliation: the stored Case that is sighted again
    rcIn,             \* reconciliation: the record of the search-result page
    rcOut,            \* reconciliation: which loop ran and the Case it left
    rlStore,          \* check_rate_limit: rate_limit_store, client -> kept timestamps
    rlNow,            \* check_rate_limit: time.time(), in whole seconds
    rlAccepted,       \* history: client -> timestamps of the requests let through
    rlRejected,       \* history: client -> requests answered with 429
    btIn,             \* fetch-bookmarked-details: per selected case, what its fetch gives
    btPc,             \* fetch-bookmarked-details: where the endpoint and its task stand
    btPos,            \* fetch-bookmarked-details: cases of the list gone through
    processed_cases,  \* fetch-bookmarked-details: the local counter of the task
    btTask,           \* fetch-bookmarked-details: background_tasks_status[task_id]
    dtIn,             \* date parsing: the value handed to the function
    dtOut,            \* date parsing: which function was called and what it gave
    pfPc,             \* _collect_data_for_lan: "idle", "get", "done"
    pfRetryCount,     \* _collect_data_for_lan: retry_count
    pfTries,          \* session.get: the retries the adapter has made
    pfRequests,       \* history: requests sent upstream by this call
    pfLast,           \* history: what the last request was answered with
    pfOut,            \* _collect_data_for_lan: "", "results", "empty", "raises"
    rate_limit_store, \* fetch-cases endpoint: the request times kept for the client
    clock,            \* fetch-cases endpoint: time.time(), in whole seconds
    bgRuns,           \* fetch-cases endpoint: per background run, the partition it is at
    rejected          \* history: requests answered with 429

dbVars == <<dbCases, dbStatus>>
sessVars == <<sNew, sDirty, sNewSt, sDirtySt, sBroken>>
runVars == <<pc, fetch_statuses, incomplete_lan, lan_page_info, k, i, status,
             current_page, result, has_next, total_processed, current_batch,
             total_cases>>
envVars == <<now, dbFaults, runs>>
histVars == <<requested, ckptAtStart, afterCrash, pageMutations, lastRecon,
              unchangedPage, processedPage, regressed, attempted, lastFailure>>
ordVars == <<ordIn, ordOut>>
detVars == <<detCase, detCalls, detOps, detLast, detAnswer>>
fdVars == <<fdIn, fdOut>>
mainVars == <<dbVars, sessVars, runVars, task, envVars, histVars>>
npVars == <<npIn, npOut>>
psVars == <<psIn, psOut>>
catVars == <<catIn, catPc, catPos, catCalls, catResults, catInFlight, catTasks,
             catYields, catCommitted, catBroken, catFaultAt>>
dtVars == <<dtIn, dtOut>>
pfVars == <<pfPc, pfRetryCount, pfTries, pfRequests, pfLast, pfOut>>
epVars == <<rate_limit_store, clock, bgRuns, rejected>>
faVars == <<faStore, faDirty, faBatch, faStatus, faIn, faPos, faPc>>
rcVars == <<rcCase, rcIn, rcOut>>
rlVars == <<rlStore, rlNow, rlAccepted, rlRejected>>
btVars == <<btIn, btPc, btPos, processed_cases, btTask>>
auxVars == <<ordVars, detVars, fdVars, npVars, psVars, catVars, dtVars, pfVars, epVars,
            faVars,
            rcVars,
            rlVars,
            btVars>>
vars == <<mainVars, auxVars>>

(***************************************************************************)
(* The collector.                                                          *)
(***************************************************************************)
\* fetch_data formats every parsed row and stamps it with the time of the
\* fetch, at one-second resolution (strftime('%Y-%m-%d %H:%M:%S')).
FormatResults(lan, rows, t) ==
    [n \in 1..Len(rows) |->
        [id |-> rows[n].id, val |-> rows[n].val, lan |-> lan,
         last_updated_from_source |-> t,
         details_fetched |-> FALSE, details_fetch_attempts |-> 0]]

\* A fetch_data that reports a second page: what the coordinator's page loop
\* would meet if the pagination block were computed.
FetchDataMorePages(lan, from_date, page, o, t) ==
    IF o.kind = "raise"
      THEN [raised |-> TRUE, truthy |-> FALSE, projects |-> <<>>,
            total_pages |-> 0, has_next |-> FALSE]
    ELSE IF o.kind = "non200"
      THEN [raised |-> FALSE, truthy |-> FALSE, projects |-> <<>>,
            total_pages |-> 0, has_next |-> FALSE]
    ELSE [raised |-> FALSE, truthy |-> TRUE,
          projects |-> FormatResults(lan, o.rows, t),
          total_pages |-> 2, has_next |-> page < 2]

\* LansstyrelsenCollector.fetch_data(lan, from_date, page) on upstream outcome o
\* at time t.  from_date and page are accepted and never used: every call GETs
\* the same URL, and the pagination block is a literal.
FetchData(lan, from_date, page, o, t) ==
    IF o.kind = "raise"
      THEN [raised |-> TRUE, truthy |-> FALSE, projects |-> <<>>,
            total_pages |-> 0, has_next |-> FALSE]
    ELSE IF o.kind = "non200"
      THEN [raised |-> FALSE, truthy |-> FALSE, projects |-> <<>>,
            total_pages |-> 0, has_next |-> FALSE]
    ELSE [raised |-> FALSE, truthy |-> TRUE,
          projects |-> FormatResults(lan, o.rows, t),
          total_pages |-> TotalPagesReported, has_next |-> FALSE]

\* The probes of the classification and estimate loops read only the kind of
\* result and its pagination, never the rows.
ProbeOutcomes == {[kind |-> "raise", rows |-> <<>>], [kind |-> "non200", rows |-> <<>>],
                  [kind |-> "ok", rows |-> <<>>]}

\* The page arguments fetch_data was called with for one lan: the first one,
\* and all of them; and the pages the page loops asked for and got a result
\* for (a 200 answer, with or without rows).
NoRequests == [lan \in Lans |-> [first |-> 0, pages |-> {}, answered |-> {}]]
Requested(rq, page) == [first |-> IF rq.first = 0 THEN page ELSE rq.first,
                        pages |-> rq.pages \cup {page},
                        answered |-> rq.answered]
Answered(rq, page, o) ==
    [rq EXCEPT !.answered = IF o.kind = "ok" THEN @ \cup {page} ELSE @]

\* The time a fetch happens: the clock has stood still or moved on one second.
FetchTimes == {t \in {now, now + 1} : t <= MaxTime}

(***************************************************************************)
(* The SQLAlchemy session (autocommit=False, autoflush=False).             *)
(***************************************************************************)
NoCases == [id \in Ids |-> NoCase]
NoStatuses == [lan \in Lans |-> NoStatus]

\* What the session returns for a persistent row: the identity map's object,
\* with its unflushed changes.
CaseView(id) == IF sDirty[id].ex THEN sDirty[id] ELSE dbCases[id]
StatusView(lan) == IF sDirtySt[lan].ex THEN sDirtySt[lan] ELSE dbStatus[lan]

\* db.query(Case).filter(Case.id == id).first(): with autoflush off the SELECT
\* sees committed rows only, never the objects waiting in the session.
QueryCase(id) == CaseView(id)

\* A flush violates a primary key: two pending objects with one key, or a
\* pending object whose key is already a row.
PkConflict(new, newSt) ==
    \/ \E a, b \in 1..Len(new) : a # b /\ new[a].id = new[b].id
    \/ \E a \in 1..Len(new) : dbCases[new[a].id].ex
    \/ \E a, b \in 1..Len(newSt) : a # b /\ newSt[a].lan = newSt[b].lan
    \/ \E a \in 1..Len(newSt) : dbStatus[newSt[a].lan].ex

\* db.commit() raises: the session awaits a rollback, the store fails, or the
\* flush violates a key.
CommitRaises(new, newSt, fault) == sBroken \/ fault \/ PkConflict(new, newSt)

CaseRow(c) == [ex |-> TRUE, val |-> c.val, lan |-> c.lan,
               last_updated_from_source |-> c.last_updated_from_source,
               details_fetched |-> c.details_fetched,
               details_fetch_attempts |-> c.details_fetch_attempts]

FlushedCases(new, dirty) ==
    [id \in Ids |->
        IF \E a \in 1..Len(new) : new[a].id = id
          THEN CaseRow(new[CHOOSE a \in 1..Len(new) : new[a].id = id])
        ELSE IF dirty[id].ex THEN dirty[id] ELSE dbCases[id]]

FlushedStatuses(newSt, dirtySt) ==
    [lan \in Lans |->
        IF \E a \in 1..Len(newSt) : newSt[a].lan = lan
          THEN StatusRow(newSt[CHOOSE a \in 1..Len(newSt) : newSt[a].lan = lan])
        ELSE IF dirtySt[lan].ex THEN dirtySt[lan] ELSE dbStatus[lan]]

\* A successful db.commit() of the given pending state.
CommitOk(new, dirty, newSt, dirtySt) ==
    /\ dbCases' = FlushedCases(new, dirty)
    /\ dbStatus' = FlushedStatuses(newSt, dirtySt)
    /\ sNew' = <<>>
    /\ sDirty' = NoCases
    /\ sNewSt' = <<>>
    /\ sDirtySt' = NoStatuses
    /\ sBroken' = FALSE

\* A db.commit() that raised: nothing reaches the store, the objects stay in
\* the session, and the session refuses work until rollback().
CommitFailed(new, dirty, newSt, dirtySt) ==
    /\ UNCHANGED dbVars
    /\ sNew' = new
    /\ sDirty' = dirty
    /\ sNewSt' = newSt
    /\ sDirtySt' = dirtySt
    /\ sBroken' = TRUE

\* No commit in this step: the session keeps the given pending state.
Pending(new, dirty, newSt, dirtySt) ==
    /\ UNCHANGED dbVars
    /\ sNew' = new
    /\ sDirty' = dirty
    /\ sNewSt' = newSt
    /\ sDirtySt' = dirtySt
    /\ UNCHANGED sBroken

\* db.rollback(): every pending object and change is dropped.
Rollback ==
    /\ UNCHANGED dbVars
    /\ sNew' = <<>>
    /\ sDirty' = NoCases
    /\ sNewSt' = <<>>
    /\ sDirtySt' = NoStatuses
    /\ sBroken' = FALSE

\* The store failures that can still be injected.
DbFaultChoices == IF dbFaults < MaxDbFaults THEN {FALSE, TRUE} ELSE {FALSE}


(***************************************************************************)
(* The task registry.                                                      *)
(***************************************************************************)
NoTask == [status |-> "none", progress |-> 0, total |-> 0, processed |-> 0]

\* track_task_progress(task_id)
track_task_progress(total) ==
    [status |-> "running", progress |-> 0, total |-> total, processed |-> 0]

\* update_task_progress(task_id, progress, message, total=total, processed=processed)
update_task_progress(tk, progress, total, processed) ==
    IF tk.status = "none" THEN tk
    ELSE [tk EXCEPT !.progress = progress, !.total = total, !.processed = processed]

\* complete_task(task_id, success, message)
complete_task(tk, success) ==
    IF tk.status = "none" THEN tk
    ELSE [tk EXCEPT !.status = IF success THEN "completed" ELSE "failed"]

\* (total_processed * 100) // total_cases if total_cases > 0 else 0
ProgressOf(tp, tc) == IF tc > 0 THEN (tp * 100) \div tc ELSE 0

(***************************************************************************)
(* Partition selection.                                                    *)
(***************************************************************************)
\* Line 228 without its second test: only a lan without a row counts.
NeverCompletedNoRow(st) == ~st.ex

\* Line 228: never fetched, or no completed fetch recorded.
NeverCompleted(st) == ~st.ex \/ st.last_successful_fetch = NULL

\* ClassifyLan with line 241 comparing by <= : a lan counts as having more
\* pages when its last page is the last one reported.
ClassifyLanPendingAtLast(lan, st, r) ==
    LET e == [lan |-> lan, st |-> IF st.ex THEN "obj" ELSE "none"]
    IN IF ~st.ex \/ st.last_successful_fetch = NULL
         THEN IF r.raised THEN <<e, e>> ELSE <<e>>
       ELSE IF ~r.raised /\ r.truthy /\ st.last_page_fetched <= r.total_pages
         THEN <<e>>
       ELSE <<>>

\* Lines 224-246 for one lan: the tuples appended to incomplete_lan, given the
\* lan's FetchStatus st and the probe's result r.
ClassifyLan(lan, st, r) ==
    LET e == [lan |-> lan, st |-> IF st.ex THEN "obj" ELSE "none"]
    IN IF NeverCompleted(st)
         THEN IF r.raised THEN <<e, e>> ELSE <<e>>
       ELSE IF ~r.raised /\ r.truthy /\ st.last_page_fetched < r.total_pages
         THEN <<e>>
       ELSE <<>>

\* The sort key without its first component.
SortKeyNoInterrupt(x) ==
    <<1, IF x.st = "obj" THEN x.lpf ELSE 0, LanRank(x.lan)>>

\* The sort key of lines 249-253 for a tuple x = (lan, status), with the
\* status' last_page_fetched in x.lpf.
SortKey(x) ==
    <<IF x.st = "obj" /\ x.lpf # 0 THEN 0 ELSE 1,
      IF x.st = "obj" THEN x.lpf ELSE 0,
      LanRank(x.lan)>>

\* Python's tuple comparison a <= b.
KeyLeq(a, b) ==
    \/ a[1] < b[1]
    \/ a[1] = b[1] /\ a[2] < b[2]
    \/ a[1] = b[1] /\ a[2] = b[2] /\ a[3] <= b[3]

\* list.sort(key=...): stable, ascending.
RECURSIVE SortIncomplete(_)
SortIncomplete(xs) ==
    IF xs = <<>> THEN <<>>
    ELSE LET x == xs[Len(xs)]
             front == SortIncomplete(SubSeq(xs, 1, Len(xs) - 1))
             keep == {n \in 1..Len(front) : KeyLeq(SortKey(front[n]), SortKey(x))}
             at == IF keep = {} THEN 0 ELSE CHOOSE n \in keep : \A m \in keep : m <= n
         IN SubSeq(front, 1, at) \o <<x>> \o SubSeq(front, at + 1, Len(front))

\* A tuple of incomplete_lan with the value its status object shows for
\* last_page_fetched.
Keyed(e) == [lan |-> e.lan, st |-> e.st,
             lpf |-> IF e.st = "obj" THEN StatusView(e.lan).last_page_fetched ELSE 0]
Unkeyed(x) == [lan |-> x.lan, st |-> x.st]

\* Lines 256-262: the estimate of the cases still to fetch.
RECURSIVE EstimateTotal(_, _)
EstimateTotal(xs, info) ==
    IF xs = <<>> THEN 0
    ELSE LET x == xs[1]
             rest == EstimateTotal(Tail(xs), info)
         IN IF x.lan \in info
              THEN (TotalPagesReported - x.lpf) * PageSize + rest
            ELSE rest

(***************************************************************************)
(* Reconciliation.                                                         *)
(***************************************************************************)
\* Lines 313-316 without the comparison of the timestamps.
NeedsUpdateNullOnly(existing, c) == existing.last_updated_from_source = NULL

\* Lines 313-316: an existing Case is updated when it has no source timestamp
\* or the incoming one is newer.
NeedsUpdate(existing, c) ==
    \/ existing.last_updated_from_source = NULL
    \/ /\ c.last_updated_from_source # NULL
       /\ c.last_updated_from_source > existing.last_updated_from_source

\* Lines 317-319: setattr(existing_case, key, value) for every key of case_data.
ApplyCaseData(existing, c) ==
    [existing EXCEPT !.val = c.val, !.lan = c.lan,
                     !.last_updated_from_source = c.last_updated_from_source,
                     !.details_fetched = c.details_fetched,
                     !.details_fetch_attempts = c.details_fetch_attempts]

\* Every row of a fetched page is already stored with the same list content
\* for the same lan.
PageUnchanged(projects) ==
    \A n \in 1..Len(projects) :
        /\ dbCases[projects[n].id].ex
        /\ dbCases[projects[n].id].val = projects[n].val
        /\ dbCases[projects[n].id].lan = projects[n].lan

NoRecon == [kind |-> "none", id |-> "", before |-> NoCase, incoming |-> NoCase,
            after |-> NoCase, updates |-> 0]
NoFailure == [happened |-> FALSE, lan |-> "", errBefore |-> 0, persisted |-> FALSE,
              row |-> NoStatus]


(***************************************************************************)
(* Initial state: empty tables, no task, no run.                           *)
(***************************************************************************)
(***************************************************************************)
(* Detail fetching.  Case numbers are digit strings, written as sequences  *)
(* of digits so that Python's substring test can be computed.              *)
(***************************************************************************)
CaseNumber == <<8, 3, 1>>            \* Case.id of the one Case
NoCaseId == ""                       \* Case.case_id is None or empty
CaseIds == {NoCaseId, "12345"}
\* What the overview table of a detail page gives as 'Diarienummer': nothing,
\* the requested number, a longer number that contains it, another number.
PageNumbers == {<<>>, <<8, 3, 1>>, <<1, 8, 3, 1>>, <<8, 3, 2>>}

\* sub in s
Contains(sub, s) ==
    \E n \in 0..(Len(s) - Len(sub)) : SubSeq(s, n + 1, n + Len(sub)) = sub

\* One answer to session.get(case_url): an exception, or a status with, for a
\* 200, whether the page has a table and the case number in its first table.
DetailResponses ==
    {[raises |-> TRUE, status |-> 0, tables |-> FALSE, id |-> <<>>],
     [raises |-> FALSE, status |-> 404, tables |-> FALSE, id |-> <<>>],
     [raises |-> FALSE, status |-> 500, tables |-> FALSE, id |-> <<>>],
     [raises |-> FALSE, status |-> 200, tables |-> FALSE, id |-> <<>>]}
    \cup {[raises |-> FALSE, status |-> 200, tables |-> TRUE, id |-> n] :
             n \in PageNumbers}
ResponseSeqs == [1..max_retries -> DetailResponses]

NoDetails == [found |-> FALSE, id |-> <<>>]

\* if result['id'] and case_number in result['id']
MatchesRequested(case_number, id) == id # <<>> /\ Contains(case_number, id)

\* Mutant of FetchAttempts: a 404 is retried like any other status.
RECURSIVE FetchAttemptsRetry404(_, _, _, _)
FetchAttemptsRetry404(case_number, responses, attempt, requests) ==
    IF attempt >= max_retries
    THEN [result |-> NoDetails, requests |-> requests]
    ELSE LET r == responses[attempt + 1]
         IN IF ~r.raises /\ r.status = 200 /\ r.tables
                /\ MatchesRequested(case_number, r.id)
            THEN [result |-> [found |-> TRUE, id |-> r.id],
                  requests |-> requests + 1]
            ELSE FetchAttemptsRetry404(case_number, responses, attempt + 1,
                                       requests + 1)

\* Mutant of FetchAttempts: the loop has one more round than max_retries.
RECURSIVE FetchAttemptsOneMore(_, _, _, _)
FetchAttemptsOneMore(case_number, responses, attempt, requests) ==
    IF attempt > max_retries
    THEN [result |-> NoDetails, requests |-> requests]
    ELSE LET r == responses[IF attempt < max_retries THEN attempt + 1
                            ELSE max_retries]
         IN IF r.raises THEN FetchAttemptsOneMore(case_number, responses,
                                                  attempt + 1, requests + 1)
            ELSE IF r.status = 404
            THEN [result |-> NoDetails, requests |-> requests + 1]
            ELSE IF r.status = 200 /\ r.tables
                    /\ MatchesRequested(case_number, r.id)
            THEN [result |-> [found |-> TRUE, id |-> r.id],
                  requests |-> requests + 1]
            ELSE FetchAttemptsOneMore(case_number, responses, attempt + 1,
                                      requests + 1)

\* for attempt in range(max_retries): one session.get per round
RECURSIVE FetchAttempts(_, _, _, _)
FetchAttempts(case_number, responses, attempt, requests) ==
    IF attempt >= max_retries
    THEN [result |-> NoDetails, requests |-> requests]
    ELSE LET r == responses[attempt + 1]
             again == FetchAttempts(case_number, responses, attempt + 1,
                                    requests + 1)
         IN IF r.raises THEN again
            ELSE IF r.status = 404
            THEN [result |-> NoDetails, requests |-> requests + 1]
            ELSE IF r.status # 200 THEN again
            ELSE IF ~r.tables THEN again
            ELSE IF MatchesRequested(case_number, r.id)
            THEN [result |-> [found |-> TRUE, id |-> r.id],
                  requests |-> requests + 1]
            ELSE again

\* fetch_case_details(case_number, case_id=None)
FetchCaseDetails(case_number, case_id, responses) ==
    IF case_id = NoCaseId
    THEN [result |-> NoDetails, requests |-> 0]
    ELSE FetchAttempts(case_number, responses, 0, 0)

\* What a call for the Case can return, by the Case's case_id, over every
\* sequence of upstream answers.
DetailResults ==
    [case_id \in CaseIds |->
        {FetchCaseDetails(CaseNumber, case_id, r).result : r \in ResponseSeqs}]

NoFdIn == [case_number |-> <<>>, case_id |-> NoCaseId, responses |-> <<>>]
NoFdOut == [called |-> FALSE, result |-> NoDetails, requests |-> 0]

\* Case(details_fetched default False, details_fetch_attempts default 0)
NewCase(case_id) ==
    [case_id |-> case_id, details_fetched |-> FALSE, details_fetch_attempts |-> 0]
NoCall == [op |-> "idle", snap |-> 0]
NoDetOp == [op |-> "none", before |-> 0, after |-> 0, failed |-> FALSE]
NoReply == [known |-> TRUE, status_code |-> 0, requests |-> 0, mutated |-> FALSE]

(***************************************************************************)
(* Pagination markup.  Text is a sequence of tokens, so that split("'")    *)
(* and the substring tests of _get_next_page_data can be computed.         *)
(***************************************************************************)
PageTexts == <<"1", "2", "3", "4", "5">>     \* str(n) for the page numbers
SpanTexts == {PageTexts[n] : n \in 1..MaxPageNo} \cup {"Sida"}
LinkTexts == {PageTexts[n] : n \in 1..(MaxPageNo + 1)} \cup {"..."}
IsNumber(text) == \E n \in 1..Len(PageTexts) : PageTexts[n] = text
\* int(text), where it does not raise ValueError
IntOf(text) == CHOOSE n \in 1..Len(PageTexts) : PageTexts[n] = text

Quote == "'"
PostbackCall == "javascript:__doPostBack"
PageArg == "Page$"
Hrefs ==
    {<<PostbackCall, "(", Quote, "grid", Quote, ",", Quote, PageArg, "2", Quote, ")">>,
     <<PostbackCall, "(", Quote, "grid", Quote, ")">>,
     <<PostbackCall, "(", ")">>,
     <<"CaseSearchResult.aspx?", PageArg, "2">>,
     <<>>}
Links == [text : LinkTexts, href : Hrefs]
HiddenFields == {"__VIEWSTATE", "__VIEWSTATEGENERATOR", "__EVENTVALIDATION"}

\* A page: whether it has a tfoot, the first span of the tfoot and the links
\* of the tfoot (none without a tfoot), and the hidden inputs of the form.
Markups ==
    {m \in [tfoot : BOOLEAN, span : BOOLEAN, spanText : SpanTexts,
            links : SeqsUpTo(Links, MaxLinks), hidden : SUBSET HiddenFields] :
        /\ ~m.tfoot => ~m.span /\ m.links = <<>>
        /\ ~m.span => m.spanText = "Sida"}

\* s.split(sep)
RECURSIVE SplitFrom(_, _, _, _)
SplitFrom(s, sep, done, cur) ==
    IF s = <<>> THEN Append(done, cur)
    ELSE IF Head(s) = sep THEN SplitFrom(Tail(s), sep, Append(done, cur), <<>>)
    ELSE SplitFrom(Tail(s), sep, done, Append(cur, Head(s)))
Split(s, sep) == SplitFrom(s, sep, <<>>, <<>>)

\* The for loop over page_links: the index of the first link that is the
\* next page or an ellipsis with a Page$ argument, 0 if there is none.
NextPageLink(links, page) ==
    LET hits == {n \in 1..Len(links) :
                    \/ links[n].text = PageTexts[page + 1]
                    \/ /\ links[n].text = "..."
                       /\ Contains(<<PageArg>>, links[n].href)}
    IN IF hits = {} THEN 0 ELSE CHOOSE n \in hits : \A m \in hits : n <= m

NoRequest == [kind |-> "none", error |-> "", target |-> <<>>, argument |-> <<>>]
Raised(error) == [NoRequest EXCEPT !.kind = "raises", !.error = error]

\* _get_next_page_data(html_content)
NextPageData(m) ==
    IF ~m.tfoot THEN NoRequest
    ELSE IF ~m.span THEN NoRequest
    ELSE IF ~IsNumber(m.spanText) THEN Raised("ValueError")
    ELSE IF m.links = <<>> THEN NoRequest
    ELSE LET n == NextPageLink(m.links, IntOf(m.spanText))
         IN IF n = 0 THEN NoRequest
            ELSE LET href == m.links[n].href
                     parts == Split(href, Quote)
                 IN IF ~Contains(<<PostbackCall>>, href) THEN NoRequest
                    ELSE IF Len(parts) < 4 THEN Raised("IndexError")
                    ELSE IF m.hidden = HiddenFields
                    THEN [kind |-> "request", error |-> "",
                          target |-> parts[2], argument |-> parts[4]]
                    ELSE NoRequest

NoNpIn == [tfoot |-> FALSE, span |-> FALSE, spanText |-> "Sida", links |-> <<>>,
           hidden |-> {}]
NoNpOut == [called |-> FALSE, out |-> NoRequest]
NpIdle == npIn = NoNpIn /\ npOut = NoNpOut

(***************************************************************************)
(* Search-result markup: the tr elements of the case table.                *)
(***************************************************************************)
LinkNumbers == {"", "831-2024", "77-2025"}      \* case_link.text.strip()
LinkHrefs == {"", "CaseInfo.aspx?caseID=4668238"}
Titles == {"", "Vindkraftpark"}
DateTexts == {"", "2024-03-01", "20240301", "1 mars 2024"}
\* re.search(r'caseID=(\d+)', case_url): the digits, "" without a match
PortalIdIn(href) == IF href = "CaseInfo.aspx?caseID=4668238" THEN "4668238" ELSE ""
\* date_str.isdigit()
IsDigits(text) == text = "20240301"
\* datetime.strptime(date_str, '%Y-%m-%d') does not raise ValueError
IsIsoDate(text) == text = "2024-03-01"

HeaderRow == [cells |-> 0, link |-> FALSE, number |-> "", href |-> "",
              title |-> "", date |-> ""]
\* A row with too few td cells, a row whose first cell has no link, and the
\* rows with a link in every combination of its text, href, title and date.
DataRows ==
    {[HeaderRow EXCEPT !.cells = MinCells - 1],
     [HeaderRow EXCEPT !.cells = MinCells]}
    \cup [cells : {MinCells}, link : {TRUE}, number : LinkNumbers,
          href : LinkHrefs, title : Titles, date : DateTexts]
SearchPages ==
    {[table |-> FALSE, trs |-> <<>>]}
    \cup {[table |-> TRUE, trs |-> <<HeaderRow>> \o rows] :
             rows \in SeqsUpTo(DataRows, MaxRows)}

\* Mutant of ParseRows: the first row that is skipped ends the loop.
RECURSIVE ParseRowsStopAtSkip(_)
ParseRowsStopAtSkip(rows) ==
    IF rows = <<>> THEN <<>>
    ELSE LET row == Head(rows)
             case_id == IF PortalIdIn(row.href) # "" THEN PortalIdIn(row.href)
                        ELSE row.number
         IN IF \/ row.cells < MinCells
               \/ ~row.link
               \/ case_id = "" \/ row.title = "" \/ ~IsIsoDate(row.date)
            THEN <<>>
            ELSE <<[id |-> case_id, case_id |-> row.number, title |-> row.title,
                    date |-> row.date]>> \o ParseRowsStopAtSkip(Tail(rows))

\* for row in rows: ... cases.append(case)
RECURSIVE ParseRows(_)
ParseRows(rows) ==
    IF rows = <<>> THEN <<>>
    ELSE LET row == Head(rows)
             rest == ParseRows(Tail(rows))
             case_number == row.number
             case_id == IF row.href # "" /\ PortalIdIn(row.href) # ""
                        THEN PortalIdIn(row.href)
                        ELSE case_number
             parsed == row.date # "" /\ ~IsDigits(row.date)
         IN IF row.cells < MinCells THEN rest
            ELSE IF ~row.link THEN rest
            ELSE IF parsed /\ ~IsIsoDate(row.date) THEN rest
            ELSE IF case_id = "" \/ row.title = "" \/ ~parsed THEN rest
            ELSE <<[id |-> case_id, case_id |-> case_number,
                    title |-> row.title, date |-> row.date]>> \o rest

\* _parse_cases(html_content, lan)
ParseCases(page) ==
    IF ~page.table THEN <<>> ELSE ParseRows(Tail(page.trs))

\* for row in rows: ... results.append(result), in the older collector
RECURSIVE ParseResultRows(_)
ParseResultRows(rows) ==
    IF rows = <<>> THEN <<>>
    ELSE LET row == Head(rows)
             rest == ParseResultRows(Tail(rows))
         IN IF row.cells >= MinCells /\ row.link
            THEN <<[id |-> row.number, title |-> row.title,
                    date |-> IF row.date # "" /\ IsIsoDate(row.date)
                             THEN row.date ELSE ""]>> \o rest
            ELSE rest

\* _parse_search_results(html_content, lan_name), the list it returns
ParseSearchResults(page) ==
    IF ~page.table THEN <<>> ELSE ParseResultRows(Tail(page.trs))

NoPsIn == [table |-> FALSE, trs |-> <<>>]
NoPsOut == [called |-> FALSE, cases |-> <<>>, results |-> <<>>]
PsIdle == psIn = NoPsIn /\ psOut = NoPsOut

(***************************************************************************)
(* Categorization.  What the OpenAI request of one case does: it answers   *)
(* with JSON, with text that is not JSON, or it raises; "quota" is the     *)
(* RateLimitError the API raises when the account's quota is used up.      *)
(***************************************************************************)
Answers == {"json", "not_json", "error", "quota"}

\* Mutant of CategorizeCase: a response that is not JSON counts as a success.
CategorizeCaseLenient(answer) == answer \in {"json", "not_json"}

\* _categorize_case(case): the success flag of the tuple it returns
CategorizeCase(answer) == answer = "json"

NoResults == [processed |-> 0, successful |-> 0, failed |-> 0, total_cases |-> 0,
              status |-> "none", errors |-> 0]

\* _categorize_case(case): the category columns it leaves on the case;
\* the confidence is in tenths.
CategorizedCase(answer) ==
    IF answer = "json"
    THEN [primary_category |-> "Wind Power", category_confidence |-> 8]
    ELSE [primary_category |-> "Error", category_confidence |-> 0]

\* A selected case before its task ran: primary_category is NULL or its
\* confidence is below min_confidence.
PendingCase == [calls |-> 0, done |-> FALSE, success |-> FALSE,
                primary_category |-> "", category_confidence |-> 0]

\* Mutant of ChunkEnd: the whole rest of the batch is gathered at once.
ChunkEndWhole(pos, total) == total

\* cases[i:i + batch_size]: the index of the last case of the chunk
ChunkEnd(pos, total) ==
    IF pos + ChunkSize < total THEN pos + ChunkSize ELSE total

\* what the consumer of the generator sees of a yielded results dict
Snapshot(results) == [processed |-> results.processed, status |-> results.status]

\* Mutant of FinalStatus: the status is left as it was during the loop.
FinalStatusUnset(failed, total) == "in_progress"

\* the final status of batch_categorize_with_progress
FinalStatus(failed, total) ==
    IF failed = total THEN "failed"
    ELSE IF failed > 0 THEN "completed_with_errors"
    ELSE "completed"

CatIdle ==
    /\ catIn = <<>>
    /\ catPc = "idle"
    /\ catPos = 0
    /\ catCalls = 0
    /\ catResults = NoResults
    /\ catInFlight = {}
    /\ catTasks = <<>>
    /\ catYields = <<>>
    /\ catCommitted = {}
    /\ catBroken = FALSE
    /\ catFaultAt = {}

(***************************************************************************)
(* Date parsing: parse_date of app/utils/date_utils.py and _parse_date of  *)
(* the collector.  A text is a sequence of tokens: a natural number is a   *)
(* run of digits, a negative number is one other character or a word.      *)
(***************************************************************************)
Characters == <<"-", " ", ":", "T", ".", "word">>
Token(ch) == 0 - (CHOOSE n \in 1..Len(Characters) : Characters[n] = ch)
Dash == Token("-")
Space == Token(" ")
Colon == Token(":")
Tee == Token("T")
Dot == Token(".")
Word == Token("word")                \* letters that name no month or weekday
\* The directives of a strptime format, numbered below the characters.
Directives == <<"%Y", "%m", "%d", "%H", "%M", "%S", "%f">>
Directive(d) ==
    0 - Len(Characters) - (CHOOSE n \in 1..Len(Directives) : Directives[n] = d)
FY == Directive("%Y")
Fm == Directive("%m")
Fd == Directive("%d")
FH == Directive("%H")
FM == Directive("%M")
FS == Directive("%S")
Ff == Directive("%f")

IsoDate == <<FY, Dash, Fm, Dash, Fd>>
ClockTime == <<FH, Colon, FM, Colon, FS>>
formats ==
    <<IsoDate,
      IsoDate \o <<Space>> \o ClockTime,
      IsoDate \o <<Space>> \o ClockTime \o <<Dot, Ff>>,
      IsoDate \o <<Tee>> \o ClockTime,
      IsoDate \o <<Tee>> \o ClockTime \o <<Dot, Ff>>>>

\* The values a date field can have: None, a text, a datetime
\* <<year, month, day, hour, minute, second, microsecond>>.
None == [kind |-> "none", text |-> <<>>, ts |-> <<>>]
Str(text) == [kind |-> "str", text |-> text, ts |-> <<>>]
Timestamp(ts) == [kind |-> "ts", text |-> <<>>, ts |-> ts]

DatePartTexts ==
    {<<2024, Dash, 2, Dash, 8>>,     \* "2024-02-08"
     <<2024, Dash, 13, Dash, 1>>,    \* "2024-13-01"
     <<2024, Dash, 1, Dash, 32>>,    \* "2024-01-32"
     <<2023, Dash, 2, Dash, 29>>,    \* "2023-02-29"
     <<8, Dash, 2, Dash, 2024>>}     \* "8-2-2024"
TimePartTexts ==
    {<<>>,
     <<Space, 10, Colon, 30, Colon, 0>>,
     <<Tee, 10, Colon, 30, Colon, 0>>,
     <<Space, 10, Colon, 30, Colon, 0, Dot, 500000>>,
     <<Space, 24, Colon, 0, Colon, 0>>,
     <<Space, Word>>}
GarbageTexts ==
    {<<>>,                           \* ""
     <<12>>,                         \* "12"
     <<20240208>>,                   \* "20240208"
     <<Word>>,                       \* "&nbsp;"
     <<Word, Dash, Word>>}           \* "invalid-date"
Paddings == {<<>>, <<Space>>}
DateStrings ==
    {lead \o d \o t \o trail :
        lead \in Paddings, d \in DatePartTexts, t \in TimePartTexts,
        trail \in Paddings}
    \cup {lead \o g \o trail :
             lead \in Paddings, g \in GarbageTexts, trail \in Paddings}
DateValues ==
    {None, Timestamp(<<2024, 2, 8, 0, 0, 0, 0>>),
     Timestamp(<<2024, 2, 8, 10, 30, 0, 500000>>)}
    \cup {Str(text) : text \in DateStrings}

\* the days of a month of the proleptic Gregorian calendar (datetime)
DaysIn(year, month) ==
    IF month \in {4, 6, 9, 11} THEN 30
    ELSE IF month # 2 THEN 31
    ELSE IF year % 4 = 0 /\ (year % 100 # 0 \/ year % 400 = 0) THEN 29
    ELSE 28

\* str.strip()
RECURSIVE LStrip(_)
LStrip(text) ==
    IF text # <<>> /\ Head(text) = Space THEN LStrip(Tail(text)) ELSE text
RECURSIVE RStrip(_)
RStrip(text) ==
    IF text # <<>> /\ text[Len(text)] = Space
    THEN RStrip(SubSeq(text, 1, Len(text) - 1))
    ELSE text
Strip(text) == RStrip(LStrip(text))

\* date_str.split()[0] of a text that is not blank
FirstField(text) ==
    LET t == LStrip(text)
        stops == {n \in 1..Len(t) : t[n] = Space}
    IN IF stops = {} THEN t
       ELSE SubSeq(t, 1, (CHOOSE n \in stops : \A q \in stops : n <= q) - 1)

\* len(date_str): the characters of the tokens
RECURSIVE Digits(_)
Digits(n) == IF n < 10 THEN 1 ELSE 1 + Digits(n \div 10)
RECURSIVE CharLen(_)
CharLen(text) ==
    IF text = <<>> THEN 0
    ELSE (IF Head(text) >= 0 THEN Digits(Head(text))
          ELSE IF Head(text) = Word THEN 6 ELSE 1) + CharLen(Tail(text))

\* str.isdigit()
IsDigit(text) == text # <<>> /\ \A n \in 1..Len(text) : text[n] >= 0

\* The digits a directive of strptime accepts.
FieldOk(field, v) ==
    /\ v >= 0
    /\ CASE field = FY -> v \in 1000..9999
         [] field = Fm -> v \in 1..12
         [] field = Fd -> v \in 1..31
         [] field = FH -> v \in 0..23
         [] field = FM -> v \in 0..59
         [] field = FS -> v \in 0..61
         [] field = Ff -> v \in 0..999999
         [] OTHER -> FALSE

\* datetime.strptime(date_str, fmt) does not raise ValueError: the text has
\* the shape of the format and names a date and a time that exist.
StrptimeOk(text, fmt) ==
    /\ Len(text) = Len(fmt)
    /\ \A n \in 1..Len(fmt) :
          IF fmt[n] < Word THEN FieldOk(fmt[n], text[n]) ELSE text[n] = fmt[n]
    /\ text[5] <= DaysIn(text[1], text[3])
    /\ Len(text) >= 11 => text[11] <= 59
Strptime(text) ==
    Timestamp(<<text[1], text[3], text[5],
                IF Len(text) >= 11 THEN text[7] ELSE 0,
                IF Len(text) >= 11 THEN text[9] ELSE 0,
                IF Len(text) >= 11 THEN text[11] ELSE 0,
                IF Len(text) >= 13 THEN text[13] ELSE 0>>)

\* parse_date(date_str) of date_utils.py
parse_date(date_str) ==
    IF date_str.kind = "none" \/ (date_str.kind = "str" /\ date_str.text = <<>>)
    THEN None
    ELSE IF date_str.kind = "ts" THEN date_str
    ELSE LET text == Strip(date_str.text)
             fits == {n \in 1..Len(formats) : StrptimeOk(text, formats[n])}
         IN IF fits # {} THEN Strptime(text)
            ELSE IF \E n \in 1..Len(text) : text[n] = Dash
            THEN IF StrptimeOk(FirstField(text), IsoDate)
                 THEN Strptime(FirstField(text))
                 ELSE None
            ELSE None

\* dateutil's parser.parse(date_str, dayfirst=True) for the texts of
\* DateStrings that _parse_date hands to it: an unknown word and a time or a
\* date that does not exist raise ValueError; of three numbers, the one with
\* more than two digits is the year, and of the two others the day comes
\* first whenever that names a month.
Dateutil(text) ==
    LET stops == {n \in 1..Len(text) : text[n] \in {Space, Tee}}
        cut == IF stops = {} THEN Len(text) + 1
               ELSE CHOOSE n \in stops : \A q \in stops : n <= q
        ymd == SubSeq(text, 1, cut - 1)
        hms == SubSeq(text, cut + 1, Len(text))
        a == ymd[1]
        b == ymd[3]
        c == ymd[5]
        resolved == IF a > 31
                    THEN IF c <= 12 THEN <<a, c, b>> ELSE <<a, b, c>>
                    ELSE IF a > 12 \/ b <= 12 THEN <<c, b, a>>
                    ELSE <<c, a, b>>
        dateOk == /\ resolved[2] \in 1..12
                  /\ resolved[3] \in 1..DaysIn(resolved[1], resolved[2])
        hmsOk == \/ hms = <<>>
                 \/ /\ Len(hms) >= 5
                    /\ hms[1] \in 0..23
                    /\ hms[3] \in 0..59
                    /\ hms[5] \in 0..59
    IN IF (\E n \in 1..Len(text) : text[n] = Word) \/ Len(ymd) # 5
       THEN [error |-> "ValueError", date |-> <<>>]
       ELSE IF dateOk /\ hmsOk
       THEN [error |-> "", date |-> resolved]
       ELSE [error |-> "ValueError", date |-> <<>>]

\* _parse_date(date_str) of lansstyrelsen_collector.py, which gets the text of
\* a table cell or None; its result is an ISO date text.
CollectorParseDate(date_str) ==
    IF date_str.kind = "none" \/ date_str.text = <<>>
       \/ CharLen(date_str.text) < 3
    THEN None
    ELSE LET text == Strip(date_str.text)
         IN IF IsDigit(text) THEN None
            ELSE IF Dateutil(text).error = "ValueError" THEN None
            ELSE LET d == Dateutil(text).date
                 IN Str(<<d[1], Dash, d[2], Dash, d[3]>>)

NoDtOut == [called |-> FALSE, fn |-> "", raised |-> FALSE, value |-> None]
DtIdle == dtIn = None /\ dtOut = NoDtOut

(***************************************************************************)
(* The requests session of the older collector (lansstyrelsen.py): the     *)
(* adapter's Retry and the retry loop of _collect_data_for_lan around it.  *)
(***************************************************************************)
RetryTotal == 3                      \* Retry(total=3)
status_forcelist == {500, 502, 503, 504}
MaxRetriesForLan == 3                \* max_retries of _collect_data_for_lan
NetworkError == 0                    \* no response: connection or read error
NoAnswer == -1                       \* nothing has been sent yet
PortalAnswers == {200, 404} \cup status_forcelist \cup {NetworkError}
PfIdle ==
    /\ pfPc = "idle"
    /\ pfRetryCount = 0
    /\ pfTries = 0
    /\ pfRequests = 0
    /\ pfLast = NoAnswer
    /\ pfOut = ""

(***************************************************************************)
(* The fetch-cases endpoint: check_rate_limit and the background runs it   *)
(* starts.  Each run is a coroutine on the server's event loop; it gives   *)
(* the loop back at every await of collector.fetch_data.                   *)
(***************************************************************************)
RATE_LIMIT_DURATION == 60
MAX_REQUESTS == 5
MaxClock == 90      \* the clock stops advancing here
ClockStep == 30     \* seconds the clock advances in one step
MaxCalls == 6       \* requests to the endpoint in one behaviour

\* [ts for ts in rate_limit_store[ip] if now - ts < RATE_LIMIT_DURATION]
RECURSIVE Recent(_, _)
Recent(stamps, t) ==
    IF stamps = <<>> THEN <<>>
    ELSE IF t - Head(stamps) < RATE_LIMIT_DURATION
         THEN <<Head(stamps)>> \o Recent(Tail(stamps), t)
         ELSE Recent(Tail(stamps), t)

\* A run is at partition lan_list[at]: 0 before its first fetch loop,
\* Len(lan_list) + 1 after its last.
InLoop(run) == run.at \in 1..Len(lan_list)
EpIdle ==
    /\ rate_limit_store = <<>>
    /\ clock = 0
    /\ bgRuns = <<>>
    /\ rejected = 0

(***************************************************************************)
(* fetch_all_cases (app/scripts/fetch_all_cases.py): the pass over one lan *)
(* and the one Case the portal lists for it.  The session is the one of    *)
(* get_db (autoflush=False): a stored Case that the loop has changed stays  *)
(* changed in the session until a commit flushes it.                       *)
(***************************************************************************)
ScriptBatchSize == 100               \* if len(current_batch) >= 100
MaxListed == 2      \* cases in the list fetch_cases returns

\* What the collaborator answers for a case: relevant and suitable for
\* Medla, not relevant, or no usable answer.
ScriptAnswers == {"suitable", "not_relevant", "error"}

\* A listed case: the version of its list fields, its date, and the answer
\* the classification will get for it.
ListedCases == [val : Vals, date : 1..MaxTime, answer : ScriptAnswers]

\* models.Case with its detail and classification columns.
NoScriptCase == [ex |-> FALSE, val |-> 0, last_updated_from_source |-> NULL,
                 details_fetched |-> FALSE, details_fetch_attempts |-> 0,
                 primary_category |-> "", is_medla_suitable |-> FALSE]

\* The rows the store can hold for the Case when the script starts.
StoredScriptCases ==
    {NoScriptCase} \cup
    {c \in [ex : {TRUE}, val : Vals, last_updated_from_source : 0..MaxTime,
            details_fetched : BOOLEAN, details_fetch_attempts : 0..1,
            primary_category : {"", "Wind Power"}, is_medla_suitable : BOOLEAN] :
        c.is_medla_suitable => c.primary_category # ""}

\* Lines 148-169: a new case, a newer date, or changed list content.
needs_update(existing_case, case_data) ==
    \/ ~existing_case.ex
    \/ existing_case.last_updated_from_source = NULL
    \/ case_data.date > existing_case.last_updated_from_source
    \/ case_data.val # existing_case.val

\* prepare_case_data: the prepared dict; the keys the list does not carry
\* take their defaults.
prepare_case_data(raw_data, t) ==
    [val |-> raw_data.val, last_updated_from_source |-> t,
     details_fetched |-> FALSE, details_fetch_attempts |-> 0,
     primary_category |-> ""]

\* Lines 176-181: setattr of every prepared key on the existing Case, or
\* Case(**prepared_data).
PreparedCase(existing_case, prepared_data) ==
    [ex |-> TRUE, val |-> prepared_data.val,
     last_updated_from_source |-> prepared_data.last_updated_from_source,
     details_fetched |-> prepared_data.details_fetched,
     details_fetch_attempts |-> prepared_data.details_fetch_attempts,
     primary_category |-> prepared_data.primary_category,
     is_medla_suitable |-> existing_case.is_medla_suitable]

\* _categorize_case(case): the classification columns it sets on the object.
ClassifiedCase(case, answer) ==
    [case EXCEPT !.primary_category = IF answer = "suitable" THEN "Wind Power"
                                      ELSE IF answer = "not_relevant" THEN "Not Relevant"
                                      ELSE "Error",
                 !.is_medla_suitable = (answer = "suitable")]

FaIdle ==
    /\ faStore = NoScriptCase
    /\ faDirty = NoScriptCase
    /\ faBatch = <<>>
    /\ faStatus = NoStatus
    /\ faIn = <<>>
    /\ faPos = 0
    /\ faPc = "idle"

(***************************************************************************)
(* Reconciliation of one re-sighted record by the coordinator: the stored  *)
(* Case may have had its details fetched before the record is seen again.  *)
(***************************************************************************)
MaxAttempts == 2    \* largest details_fetch_attempts of a stored Case

StoredCases ==
    [ex : {TRUE}, val : Vals, lan : Lans, last_updated_from_source : 0..MaxTime,
     details_fetched : BOOLEAN, details_fetch_attempts : 0..MaxAttempts]

\* The records fetch_data can format for the Case.
SightedRecords ==
    {FormatResults(lan, <<row>>, t)[1] : lan \in Lans, row \in Rows, t \in 1..MaxTime}

NoRcOut == [called |-> "", after |-> NoCase]
RcIdle == rcCase = NoCase /\ rcIn = NoCase /\ rcOut = NoRcOut

(***************************************************************************)
(* check_rate_limit for the admin endpoints, with rate_limit_store keyed   *)
(* by the client's address.                                                *)
(***************************************************************************)
MaxChecks == 7      \* calls of check_rate_limit in one behaviour
Clients == {"10.0.0.1", "10.0.0.2"}

\* Mutant of check_rate_limit: the limit is compared with > instead of >=.
CheckRateLimitOneMore(stamps, t) ==
    LET recent == Recent(stamps, t)
    IN IF Len(recent) > MAX_REQUESTS
       THEN [raises |-> TRUE, stamps |-> recent]
       ELSE [raises |-> FALSE, stamps |-> Append(recent, t)]

\* check_rate_limit(ip) at time t, stamps being rate_limit_store[ip]: the old
\* timestamps are dropped, then the call raises 429 or notes the request.
check_rate_limit(stamps, t) ==
    LET recent == Recent(stamps, t)
    IN IF Len(recent) >= MAX_REQUESTS
       THEN [raises |-> TRUE, stamps |-> recent]
       ELSE [raises |-> FALSE, stamps |-> Append(recent, t)]

\* The timestamps of stamps that lie less than RATE_LIMIT_DURATION before t.
WithinWindow(stamps, t) == {n \in 1..Len(stamps) : t - stamps[n] < RATE_LIMIT_DURATION}

RlIdle ==
    /\ rlStore = [ip \in Clients |-> <<>>]
    /\ rlNow = 0
    /\ rlAccepted = [ip \in Clients |-> <<>>]
    /\ rlRejected = [ip \in Clients |-> 0]

(***************************************************************************)
(* POST /admin/fetch-bookmarked-details and its background task, as far as *)
(* the task registry is concerned.                                         *)
(***************************************************************************)
MaxBookmarked == 3  \* bookmarked cases selected by one request

\* What the detail fetch of one selected case gives: details, None, or an
\* exception.
FetchResults == {"details", "none", "raises"}

\* The progress argument None of the error reports (lines 555 and 564).
NoProgress == 0 - 1

\* int((processed_cases / len(bookmarked_cases)) * 100); for the list lengths
\* of the model the float product truncates to the integer quotient.
PercentOf(processed, n) == (processed * 100) \div n

BtIdle ==
    /\ btIn = <<>>
    /\ btPc = "idle"
    /\ btPos = 0
    /\ processed_cases = 0
    /\ btTask = NoTask

OrdIdle == ordIn = <<>> /\ ordOut = <<>>
DetIdle ==
    /\ detCase = NewCase(NoCaseId)
    /\ detCalls = [c \in 1..MaxDetCalls |-> NoCall]
    /\ detOps = 0
    /\ detLast = NoDetOp
    /\ detAnswer = NoReply
FdIdle == fdIn = NoFdIn /\ fdOut = NoFdOut

\* Every component but the named one is at rest.
IdleExcept(component) ==
    /\ IF component = "order" THEN TRUE ELSE OrdIdle
    /\ IF component = "details" THEN TRUE ELSE DetIdle
    /\ IF component = "fetch_case_details" THEN TRUE ELSE FdIdle
    /\ IF component = "next_page" THEN TRUE ELSE NpIdle
    /\ IF component = "parse_cases" THEN TRUE ELSE PsIdle
    /\ IF component = "categorization" THEN TRUE ELSE CatIdle
    /\ IF component = "date" THEN TRUE ELSE DtIdle
    /\ IF component = "portal_session" THEN TRUE ELSE PfIdle
    /\ IF component = "endpoint" THEN TRUE ELSE EpIdle
    /\ IF component = "script" THEN TRUE ELSE FaIdle
    /\ IF component = "reconcile" THEN TRUE ELSE RcIdle
    /\ IF component = "rate_limit" THEN TRUE ELSE RlIdle
    /\ IF component = "details_task" THEN TRUE ELSE BtIdle

InitMain ==
    /\ dbCases = NoCases
    /\ dbStatus = NoStatuses
    /\ sNew = <<>>
    /\ sDirty = NoCases
    /\ sNewSt = <<>>
    /\ sDirtySt = NoStatuses
    /\ sBroken = FALSE
    /\ pc = "idle"
    /\ fetch_statuses = {}
    /\ incomplete_lan = <<>>
    /\ lan_page_info = {}
    /\ k = 1
    /\ i = 1
    /\ status = "none"
    /\ current_page = 1
    /\ result = <<>>
    /\ has_next = FALSE
    /\ total_processed = 0
    /\ current_batch = 0
    /\ total_cases = 0
    /\ task = NoTask
    /\ now = 1
    /\ dbFaults = 0
    /\ runs = 0
    /\ requested = NoRequests
    /\ ckptAtStart = NoStatuses
    /\ afterCrash = FALSE
    /\ pageMutations = 0
    /\ lastRecon = NoRecon
    /\ unchangedPage = FALSE
    /\ processedPage = [lan \in Lans |-> 0]
    /\ regressed = FALSE
    /\ attempted = {}
    /\ lastFailure = NoFailure

Init == InitMain /\ IdleExcept("main")

\* The processed count published by a step went down.
Regresses(tk) == tk.status # "none" /\ tk.processed < task.processed

(***************************************************************************)
(* fetch_cases: the endpoint registers the task and starts                 *)
(* fetch_cases_background on a fresh session; line 218 reads every         *)
(* FetchStatus.                                                            *)
(***************************************************************************)
StartRun ==
    /\ pc \in {"idle", "crashed", "done", "aborted"}
    /\ runs < MaxRuns
    /\ runs' = runs + 1
    /\ \E fault \in DbFaultChoices :
        /\ dbFaults' = dbFaults + (IF fault THEN 1 ELSE 0)
        /\ pc' = IF fault THEN "aborted" ELSE "classify"
    /\ task' = track_task_progress(0)
    /\ UNCHANGED dbVars
    /\ sNew' = <<>>
    /\ sDirty' = NoCases
    /\ sNewSt' = <<>>
    /\ sDirtySt' = NoStatuses
    /\ sBroken' = FALSE
    /\ fetch_statuses' = {lan \in Lans : dbStatus[lan].ex}
    /\ incomplete_lan' = <<>>
    /\ lan_page_info' = {}
    /\ k' = 1
    /\ i' = 1
    /\ status' = "none"
    /\ current_page' = 1
    /\ result' = <<>>
    /\ has_next' = FALSE
    /\ total_processed' = 0
    /\ current_batch' = 0
    /\ total_cases' = 0
    /\ requested' = NoRequests
    /\ ckptAtStart' = dbStatus
    /\ afterCrash' = (pc = "crashed")
    /\ pageMutations' = 0
    /\ lastRecon' = NoRecon
    /\ unchangedPage' = FALSE
    /\ processedPage' = [lan \in Lans |-> 0]
    /\ regressed' = FALSE
    /\ attempted' = {}
    /\ lastFailure' = NoFailure
    /\ UNCHANGED <<now, auxVars>>

(***************************************************************************)
(* Lines 224-246: one lan of the classification loop, with its probe       *)
(* fetch_data(lan, page=1).                                                *)
(***************************************************************************)
Classify ==
    /\ pc = "classify"
    /\ \E o \in ProbeOutcomes :
        LET lan == lan_list[k]
            r == FetchData(lan, NULL, 1, o, now)
        IN /\ incomplete_lan' = incomplete_lan \o ClassifyLan(lan, StatusView(lan), r)
           /\ lan_page_info' = IF ~r.raised /\ r.truthy
                                 THEN lan_page_info \cup {lan} ELSE lan_page_info
           /\ requested' = [requested EXCEPT ![lan] = Requested(@, 1)]
    /\ IF k < Len(lan_list)
         THEN k' = k + 1 /\ pc' = "classify"
         ELSE k' = 1 /\ pc' = "plan"
    /\ UNCHANGED <<dbVars, sessVars, fetch_statuses, i, status, current_page, result,
                   has_next, total_processed, current_batch, total_cases, task,
                   envVars, ckptAtStart, afterCrash, pageMutations, lastRecon,
                   unchangedPage, processedPage, regressed, attempted, lastFailure,
                   auxVars>>

(***************************************************************************)
(* Lines 248-273: sort, estimate, publish, and choose the pass.            *)
(***************************************************************************)
Plan ==
    /\ pc = "plan"
    /\ LET keyed == [n \in 1..Len(incomplete_lan) |-> Keyed(incomplete_lan[n])]
           sorted == SortIncomplete(keyed)
           total == EstimateTotal(sorted, lan_page_info)
           tk == update_task_progress(task, 0, total, 0)
       IN /\ incomplete_lan' = [n \in 1..Len(sorted) |-> Unkeyed(sorted[n])]
          /\ total_cases' = total
          /\ task' = tk
          /\ regressed' = (regressed \/ Regresses(tk))
          /\ pc' = IF sorted # <<>> THEN "bf_start" ELSE "up_est"
    /\ i' = 1
    /\ k' = 1
    /\ UNCHANGED <<dbVars, sessVars, fetch_statuses, lan_page_info, status,
                   current_page, result, has_next, total_processed, current_batch,
                   envVars, requested, ckptAtStart, afterCrash, pageMutations,
                   lastRecon, unchangedPage, processedPage, attempted, lastFailure,
                   auxVars>>

(***************************************************************************)
(* The backfill loop, lines 275-373.                                       *)
(***************************************************************************)
\* The for loop moves to the next tuple, or the loop is over (line 473).
NextEntry ==
    IF i < Len(incomplete_lan)
      THEN i' = i + 1 /\ pc' = "bf_start"
      ELSE i' = i /\ pc' = "final"

\* Once a page has been left, result and has_next are dead: every path assigns
\* them before it reads them again.  They are released, and the bookkeeping
\* about the page's reconciliation with them.
LeavePage ==
    /\ result' = <<>>
    /\ has_next' = FALSE
    /\ pageMutations' = 0
    /\ lastRecon' = NoRecon
    /\ unchangedPage' = FALSE

\* Lines 275-280: bind (lan, status) and compute start_page.
BfStart ==
    /\ pc = "bf_start"
    /\ LET e == incomplete_lan[i]
       IN /\ status' = e.st
          /\ current_page' = IF e.st = "obj"
                               THEN StatusView(e.lan).last_page_fetched + 1 ELSE 1
          /\ attempted' = attempted \cup {e.lan}
    /\ pc' = "bf_fetch"
    /\ UNCHANGED <<dbVars, sessVars, fetch_statuses, incomplete_lan, lan_page_info, k,
                   i, result, has_next, total_processed, current_batch, total_cases,
                   task, envVars, requested, ckptAtStart, afterCrash, pageMutations,
                   lastRecon, unchangedPage, processedPage, regressed, lastFailure,
                   auxVars>>

\* Lines 283-295: publish progress, fetch the current page.
BfFetch ==
    /\ pc = "bf_fetch"
    /\ LET tk == update_task_progress(task, ProgressOf(total_processed, total_cases),
                                      total_cases, total_processed)
       IN task' = tk /\ regressed' = (regressed \/ Regresses(tk))
    /\ \E o \in Outcomes, t \in FetchTimes :
        LET lan == incomplete_lan[i].lan
            r == FetchData(lan, NULL, current_page, o, t)
        IN /\ requested' = [requested EXCEPT
                             ![lan] = Answered(Requested(@, current_page),
                                               current_page, o)]
           /\ now' = t
           /\ IF r.raised
                THEN /\ pc' = "bf_except"
                     /\ UNCHANGED <<i, result, has_next, unchangedPage>>
              ELSE IF ~r.truthy \/ r.projects = <<>>
                THEN /\ NextEntry
                     /\ UNCHANGED <<result, has_next, unchangedPage>>
              ELSE /\ result' = r.projects
                   /\ has_next' = r.has_next
                   /\ unchangedPage' = PageUnchanged(r.projects)
                   /\ pc' = "bf_rec"
                   /\ i' = i
    /\ UNCHANGED <<pageMutations, lastRecon>>
    /\ UNCHANGED <<dbVars, sessVars, fetch_statuses, incomplete_lan, lan_page_info, k,
                   status, current_page, total_processed, current_batch, total_cases,
                   dbFaults, runs, ckptAtStart, afterCrash, processedPage, attempted,
                   lastFailure, auxVars>>


\* Lines 298-338: reconcile the next row of result.  An exception in the try block rolls
\* the session back and the loop goes on with the next row.
BfRec ==
    /\ pc = "bf_rec"
    /\ \E qf \in DbFaultChoices :
        LET c == Head(result)
            existing == QueryCase(c.id)
            upd == existing.ex /\ NeedsUpdate(existing, c)
            ins == ~existing.ex
            new2 == IF ins THEN Append(sNew, c) ELSE sNew
            dirty2 == IF upd THEN [sDirty EXCEPT ![c.id] = ApplyCaseData(existing, c)]
                      ELSE sDirty
            cb2 == IF ins THEN current_batch + 1 ELSE current_batch
            commits == (upd \/ ins) /\ cb2 >= BatchSize
        IN /\ dbFaults' = dbFaults + (IF qf THEN 1 ELSE 0)
           /\ IF sBroken \/ qf
                THEN /\ Rollback
                     /\ UNCHANGED <<total_processed, current_batch, pageMutations>>
                     /\ lastRecon' = [NoRecon EXCEPT !.kind = "error", !.id = c.id]
              ELSE IF commits /\ CommitRaises(new2, sNewSt, FALSE)
                THEN /\ Rollback
                     /\ current_batch' = cb2
                     /\ pageMutations' = pageMutations + 1
                     /\ lastRecon' = [NoRecon EXCEPT !.kind = "error", !.id = c.id]
                     /\ UNCHANGED total_processed
              ELSE /\ IF commits
                        THEN CommitOk(new2, dirty2, sNewSt, sDirtySt) /\ current_batch' = 0
                        ELSE Pending(new2, dirty2, sNewSt, sDirtySt) /\ current_batch' = cb2
                   /\ total_processed' = total_processed + 1
                   /\ pageMutations' = pageMutations + (IF upd \/ ins THEN 1 ELSE 0)
                   /\ lastRecon' =
                        [kind |-> IF ins THEN "insert" ELSE IF upd THEN "update" ELSE "skip",
                         id |-> c.id,
                         before |-> existing,
                         incoming |-> CaseRow(c),
                         after |-> IF upd THEN ApplyCaseData(existing, c) ELSE existing,
                         updates |-> IF upd THEN 1 ELSE 0]
    /\ result' = Tail(result)
    /\ pc' = IF Tail(result) # <<>> THEN "bf_rec" ELSE "bf_ckpt"
    /\ UNCHANGED <<fetch_statuses, incomplete_lan, lan_page_info, k, i, status,
                   current_page, has_next, total_cases, task, now, runs,
                   requested, ckptAtStart, afterCrash, unchangedPage, processedPage,
                   regressed, attempted, lastFailure, auxVars>>

\* The assignments the coordinator makes to a FetchStatus object: the page
\* record of lines 348-351, the failure count of lines 370-372 and 469-470,
\* the completion of lines 462-464.
ApplyStatus(st, how) ==
    IF how.op = "page"
      THEN [st EXCEPT !.last_page_fetched = how.page, !.last_successful_fetch = how.t]
    ELSE IF how.op = "error"
      THEN [st EXCEPT !.error_count = @ + 1, !.last_error = TRUE]
    ELSE [st EXCEPT !.last_successful_fetch = how.t, !.error_count = 0,
                    !.last_error = FALSE]

\* The FetchStatus object the local variable status names, after the
\* assignments how: a row of the table (dirtySt), or the object created in this
\* iteration and still waiting in the session (newSt).
TouchedNewSt(lan, created, how) ==
    IF status = "none" THEN Append(sNewSt, created)
    ELSE IF status = "new" /\ sNewSt # <<>>
      THEN [sNewSt EXCEPT ![Len(sNewSt)] = ApplyStatus(@, how)]
    ELSE sNewSt

TouchedDirtySt(lan, how) ==
    IF status = "obj" THEN [sDirtySt EXCEPT ![lan] = ApplyStatus(StatusView(lan), how)]
    ELSE sDirtySt

\* Lines 340-359: record the page on the FetchStatus; commit only when the
\* page reports no next page, otherwise go on to the next page uncommitted.
BfCkpt ==
    /\ pc = "bf_ckpt"
    /\ \E cf \in DbFaultChoices :
        LET lan == incomplete_lan[i].lan
            Mark == [op |-> "page", page |-> current_page, t |-> now]
            newSt2 == TouchedNewSt(lan, NewFetchStatus(lan, now, current_page, 0, FALSE), Mark)
            dirtySt2 == TouchedDirtySt(lan, Mark)
        IN /\ cf => ~has_next
           /\ dbFaults' = dbFaults + (IF cf THEN 1 ELSE 0)
           /\ processedPage' = [processedPage EXCEPT ![lan] = current_page]
           /\ IF ~has_next
                THEN IF CommitRaises(sNew, newSt2, cf)
                       THEN /\ CommitFailed(sNew, sDirty, newSt2, dirtySt2)
                            /\ pc' = "bf_except"
                            /\ i' = i
                            /\ UNCHANGED current_page
                       ELSE /\ CommitOk(sNew, sDirty, newSt2, dirtySt2)
                            /\ NextEntry
                            /\ UNCHANGED current_page
                ELSE /\ Pending(sNew, sDirty, newSt2, dirtySt2)
                     /\ current_page' = current_page + 1
                     /\ pc' = "bf_fetch"
                     /\ i' = i
    /\ status' = IF status = "none" THEN "new" ELSE status
    /\ LeavePage
    /\ UNCHANGED <<fetch_statuses, incomplete_lan, lan_page_info, k, total_processed,
                   current_batch, total_cases, task, now, runs, requested, ckptAtStart,
                   afterCrash, regressed, attempted, lastFailure, auxVars>>

\* The error_count the handler reads before it counts the failure.
ErrorCountSeen(lan) ==
    IF status = "new" /\ sNewSt # <<>> THEN sNewSt[Len(sNewSt)].error_count
    ELSE StatusView(lan).error_count

\* Lines 361-373: the partition's handler counts the failure on the
\* FetchStatus and commits; nothing guards that commit.
BfExcept ==
    /\ pc = "bf_except"
    /\ \E cf \in DbFaultChoices :
        LET lan == incomplete_lan[i].lan
            Count == [op |-> "error", page |-> 0, t |-> NULL]
            newSt2 == TouchedNewSt(lan, NewFetchStatus(lan, NULL, 0, 1, TRUE), Count)
            dirtySt2 == TouchedDirtySt(lan, Count)
            raises == CommitRaises(sNew, newSt2, cf)
        IN /\ dbFaults' = dbFaults + (IF cf THEN 1 ELSE 0)
           /\ IF raises
                THEN /\ CommitFailed(sNew, sDirty, newSt2, dirtySt2)
                     /\ pc' = "aborted"
                     /\ i' = i
                ELSE /\ CommitOk(sNew, sDirty, newSt2, dirtySt2)
                     /\ NextEntry
           /\ lastFailure' = [happened |-> TRUE, lan |-> lan,
                              errBefore |-> ErrorCountSeen(lan),
                              persisted |-> ~raises, row |-> dbStatus'[lan]]
    /\ status' = IF status = "none" THEN "new" ELSE status
    /\ UNCHANGED <<fetch_statuses, incomplete_lan, lan_page_info, k, current_page, result,
                   has_next, total_processed, current_batch, total_cases, task, now,
                   runs, requested, ckptAtStart, afterCrash, pageMutations, lastRecon,
                   unchangedPage, processedPage, regressed, attempted, auxVars>>


(***************************************************************************)
(* The update pass, lines 374-471.                                         *)
(***************************************************************************)
\* Lines 380-402: one lan of the estimate loop; after the last one the
\* estimate is published.
UpEst ==
    /\ pc = "up_est"
    /\ LET lan == lan_list[k]
           dated == lan \in fetch_statuses /\ StatusView(lan).last_successful_fetch # NULL
           last == k = Len(lan_list)
           Publish(total) ==
               LET tk == IF last THEN update_task_progress(task, 0, total, 0) ELSE task
               IN /\ total_cases' = total
                  /\ task' = tk
                  /\ regressed' = (regressed \/ Regresses(tk))
       IN IF dated
            THEN \E o \in ProbeOutcomes :
                   LET r == FetchData(lan, StatusView(lan).last_successful_fetch, 1, o, now)
                   IN /\ Publish(IF ~r.raised /\ r.truthy
                                   THEN total_cases + r.total_pages * PageSize
                                   ELSE total_cases)
                      /\ requested' = [requested EXCEPT ![lan] = Requested(@, 1)]
            ELSE Publish(total_cases) /\ UNCHANGED requested
    /\ IF k < Len(lan_list)
         THEN k' = k + 1 /\ pc' = "up_est"
         ELSE k' = 1 /\ pc' = "up_start"
    /\ UNCHANGED <<dbVars, sessVars, fetch_statuses, incomplete_lan, lan_page_info, i,
                   status, current_page, result, has_next, total_processed,
                   current_batch, envVars, ckptAtStart, afterCrash, pageMutations,
                   lastRecon, unchangedPage, processedPage, attempted, lastFailure,
                   auxVars>>

\* The for loop of line 404 moves to the next lan, or is over (line 473).
NextLan ==
    IF k < Len(lan_list)
      THEN k' = k + 1 /\ pc' = "up_start"
      ELSE k' = k /\ pc' = "final"

\* Lines 404-421: bind status, publish progress, start at page 1.
UpStart ==
    /\ pc = "up_start"
    /\ LET lan == lan_list[k]
           tk == update_task_progress(task, ProgressOf(total_processed, total_cases),
                                      total_cases, total_processed)
       IN IF lan \notin fetch_statuses
            THEN NextLan /\ UNCHANGED <<status, current_page, task, regressed, attempted>>
          ELSE IF StatusView(lan).last_successful_fetch = NULL
            THEN /\ pc' = "up_status"
                 /\ status' = "obj"
                 /\ attempted' = attempted \cup {lan}
                 /\ UNCHANGED <<k, current_page, task, regressed>>
          ELSE /\ pc' = "up_fetch"
               /\ status' = "obj"
               /\ current_page' = 1
               /\ task' = tk
               /\ regressed' = (regressed \/ Regresses(tk))
               /\ attempted' = attempted \cup {lan}
               /\ k' = k
    /\ UNCHANGED <<dbVars, sessVars, fetch_statuses, incomplete_lan, lan_page_info, i,
                   result, has_next, total_processed, current_batch, total_cases,
                   envVars, requested, ckptAtStart, afterCrash, pageMutations, lastRecon,
                   unchangedPage, processedPage, lastFailure, auxVars>>

\* Lines 423-425: fetch the current page of the update query.
UpFetch ==
    /\ pc = "up_fetch"
    /\ \E o \in Outcomes, t \in FetchTimes :
        LET lan == lan_list[k]
            r == FetchData(lan, StatusView(lan).last_successful_fetch, current_page, o, t)
        IN /\ requested' = [requested EXCEPT
                             ![lan] = Answered(Requested(@, current_page),
                                               current_page, o)]
           /\ now' = t
           /\ IF r.raised
                THEN /\ pc' = "up_except"
                     /\ UNCHANGED <<result, has_next, unchangedPage>>
              ELSE IF ~r.truthy \/ r.projects = <<>>
                THEN /\ pc' = "up_status"
                     /\ UNCHANGED <<result, has_next, unchangedPage>>
              ELSE /\ result' = r.projects
                   /\ has_next' = r.has_next
                   /\ unchangedPage' = PageUnchanged(r.projects)
                   /\ pc' = "up_rec"
    /\ UNCHANGED <<pageMutations, lastRecon>>
    /\ UNCHANGED <<dbVars, sessVars, fetch_statuses, incomplete_lan, lan_page_info, k, i,
                   status, current_page, total_processed, current_batch, total_cases,
                   task, dbFaults, runs, ckptAtStart, afterCrash, processedPage,
                   regressed, attempted, lastFailure, auxVars>>

\* Lines 428-449: an existing Case takes every incoming value; a row whose id
\* is not stored is passed over.
UpRec ==
    /\ pc = "up_rec"
    /\ \E qf \in DbFaultChoices :
        LET c == Head(result)
            existing == QueryCase(c.id)
            after == ApplyCaseData(existing, c)
        IN /\ dbFaults' = dbFaults + (IF qf THEN 1 ELSE 0)
           /\ IF sBroken \/ qf
                THEN /\ Rollback
                     /\ UNCHANGED <<total_processed, pageMutations>>
                     /\ lastRecon' = [NoRecon EXCEPT !.kind = "error", !.id = c.id]
              ELSE IF existing.ex
                THEN /\ Pending(sNew, [sDirty EXCEPT ![c.id] = after], sNewSt, sDirtySt)
                     /\ total_processed' = total_processed + 1
                     /\ pageMutations' = pageMutations + (IF after # existing THEN 1 ELSE 0)
                     /\ lastRecon' = [kind |-> "update", id |-> c.id, before |-> existing,
                                      incoming |-> CaseRow(c), after |-> after,
                                      updates |-> 1]
              ELSE /\ Pending(sNew, sDirty, sNewSt, sDirtySt)
                   /\ UNCHANGED <<total_processed, pageMutations>>
                   /\ lastRecon' = [NoRecon EXCEPT !.kind = "skip", !.id = c.id,
                                                   !.incoming = CaseRow(c)]
    /\ result' = Tail(result)
    /\ pc' = IF Tail(result) # <<>> THEN "up_rec" ELSE "up_commit"
    /\ UNCHANGED <<fetch_statuses, incomplete_lan, lan_page_info, k, i, status,
                   current_page, has_next, current_batch, total_cases, task, now,
                   runs, requested, ckptAtStart, afterCrash, unchangedPage,
                   processedPage, regressed, attempted, lastFailure, auxVars>>

\* Lines 451-459: commit the page, then stop or go on to the next page.
UpCommit ==
    /\ pc = "up_commit"
    /\ \E cf \in DbFaultChoices :
        /\ dbFaults' = dbFaults + (IF cf THEN 1 ELSE 0)
        /\ IF CommitRaises(sNew, sNewSt, cf)
             THEN /\ CommitFailed(sNew, sDirty, sNewSt, sDirtySt)
                  /\ pc' = "up_except"
                  /\ UNCHANGED current_page
             ELSE /\ CommitOk(sNew, sDirty, sNewSt, sDirtySt)
                  /\ IF has_next
                       THEN current_page' = current_page + 1 /\ pc' = "up_fetch"
                       ELSE UNCHANGED current_page /\ pc' = "up_status"
    /\ LeavePage
    /\ UNCHANGED <<fetch_statuses, incomplete_lan, lan_page_info, k, i, status,
                   total_processed, current_batch, total_cases, task, now, runs,
                   requested, ckptAtStart, afterCrash, processedPage, regressed,
                   attempted, lastFailure, auxVars>>

\* Lines 461-465: the pass over this lan is complete.
UpStatus ==
    /\ pc = "up_status"
    /\ \E cf \in DbFaultChoices :
        LET lan == lan_list[k]
            Done == [op |-> "done", page |-> 0, t |-> now]
            dirtySt2 == TouchedDirtySt(lan, Done)
        IN /\ dbFaults' = dbFaults + (IF cf THEN 1 ELSE 0)
           /\ IF CommitRaises(sNew, sNewSt, cf)
                THEN /\ CommitFailed(sNew, sDirty, sNewSt, dirtySt2)
                     /\ pc' = "up_except"
                     /\ k' = k
                ELSE /\ CommitOk(sNew, sDirty, sNewSt, dirtySt2)
                     /\ NextLan
    /\ UNCHANGED <<fetch_statuses, incomplete_lan, lan_page_info, i, status, current_page,
                   result, has_next, total_processed, current_batch, total_cases, task,
                   now, runs, histVars, auxVars>>

\* Lines 467-471: the lan's handler counts the failure and commits; nothing
\* guards that commit.
UpExcept ==
    /\ pc = "up_except"
    /\ \E cf \in DbFaultChoices :
        LET lan == lan_list[k]
            Count == [op |-> "error", page |-> 0, t |-> NULL]
            dirtySt2 == TouchedDirtySt(lan, Count)
            raises == CommitRaises(sNew, sNewSt, cf)
        IN /\ dbFaults' = dbFaults + (IF cf THEN 1 ELSE 0)
           /\ IF raises
                THEN /\ CommitFailed(sNew, sDirty, sNewSt, dirtySt2)
                     /\ pc' = "aborted"
                     /\ k' = k
                ELSE /\ CommitOk(sNew, sDirty, sNewSt, dirtySt2)
                     /\ NextLan
           /\ lastFailure' = [happened |-> TRUE, lan |-> lan,
                              errBefore |-> ErrorCountSeen(lan),
                              persisted |-> ~raises, row |-> dbStatus'[lan]]
    /\ UNCHANGED <<fetch_statuses, incomplete_lan, lan_page_info, i, status, current_page,
                   result, has_next, total_processed, current_batch, total_cases, task,
                   now, runs, requested, ckptAtStart, afterCrash, pageMutations,
                   lastRecon, unchangedPage, processedPage, regressed, attempted,
                   auxVars>>

(***************************************************************************)
(* Lines 473-477: the last commit and complete_task.                       *)
(***************************************************************************)
Final ==
    /\ pc = "final"
    /\ \E cf \in DbFaultChoices :
        /\ cf => current_batch > 0
        /\ dbFaults' = dbFaults + (IF cf THEN 1 ELSE 0)
        /\ IF current_batch > 0
             THEN IF CommitRaises(sNew, sNewSt, cf)
                    THEN /\ CommitFailed(sNew, sDirty, sNewSt, sDirtySt)
                         /\ pc' = "aborted"
                         /\ UNCHANGED task
                    ELSE /\ CommitOk(sNew, sDirty, sNewSt, sDirtySt)
                         /\ pc' = "done"
                         /\ task' = complete_task(task, TRUE)
             ELSE /\ Pending(sNew, sDirty, sNewSt, sDirtySt)
                  /\ pc' = "done"
                  /\ task' = complete_task(task, TRUE)
    /\ UNCHANGED <<fetch_statuses, incomplete_lan, lan_page_info, k, i, status,
                   current_page, result, has_next, total_processed, current_batch,
                   total_cases, now, runs, histVars, auxVars>>

(***************************************************************************)
(* The process is killed while a run is under way: the session and the     *)
(* task registry are gone, the tables stay.                                *)
(***************************************************************************)
\* where the run stands while it is in the backfill pass (lines 275-373)
BackfillPcs == {"bf_start", "bf_fetch", "bf_rec", "bf_ckpt", "bf_except"}
RunningPcs == {"classify", "plan", "bf_start", "bf_fetch", "bf_rec", "bf_ckpt",
               "bf_except", "up_est", "up_start", "up_fetch", "up_rec", "up_commit",
               "up_status", "up_except", "final"}

Crash ==
    /\ pc \in RunningPcs
    /\ pc' = "crashed"
    /\ task' = NoTask
    /\ UNCHANGED dbVars
    /\ sNew' = <<>>
    /\ sDirty' = NoCases
    /\ sNewSt' = <<>>
    /\ sDirtySt' = NoStatuses
    /\ sBroken' = FALSE
    /\ fetch_statuses' = {}
    /\ incomplete_lan' = <<>>
    /\ lan_page_info' = {}
    /\ k' = 1
    /\ i' = 1
    /\ status' = "none"
    /\ current_page' = 1
    /\ result' = <<>>
    /\ has_next' = FALSE
    /\ total_processed' = 0
    /\ current_batch' = 0
    /\ total_cases' = 0
    /\ requested' = NoRequests
    /\ ckptAtStart' = NoStatuses
    /\ afterCrash' = FALSE
    /\ pageMutations' = 0
    /\ lastRecon' = NoRecon
    /\ unchangedPage' = FALSE
    /\ processedPage' = [lan \in Lans |-> 0]
    /\ regressed' = FALSE
    /\ attempted' = {}
    /\ lastFailure' = NoFailure
    /\ UNCHANGED <<envVars, auxVars>>

Next ==
    \/ StartRun
    \/ Classify
    \/ Plan
    \/ BfStart
    \/ BfFetch
    \/ BfRec
    \/ BfCkpt
    \/ BfExcept
    \/ UpEst
    \/ UpStart
    \/ UpFetch
    \/ UpRec
    \/ UpCommit
    \/ UpStatus
    \/ UpExcept
    \/ Final
    \/ Crash

Spec == Init /\ [][Next]_vars

(***************************************************************************)
(* The ordering of lines 248-253 on its own: the list to sort is drawn     *)
(* from every list of (lan, status) tuples within the bounds, a status     *)
(* being absent ("none") or an object with its last_page_fetched.          *)
(***************************************************************************)
OrdTuples ==
    {x \in [lan : Lans, st : {"none", "obj"}, lpf : 0..MaxLpf] :
        x.st = "none" => x.lpf = 0}
OrderInputs == SeqsUpTo(OrdTuples, MaxOrdLen)

InitOrder ==
    InitMain /\ IdleExcept("order") /\ ordIn \in OrderInputs /\ ordOut = <<>>

\* incomplete_lan.sort(key=...)
OrderSort ==
    /\ ordIn # <<>>
    /\ ordOut = <<>>
    /\ ordOut' = SortIncomplete(ordIn)
    /\ UNCHANGED <<mainVars, ordIn, detVars, fdVars, npVars, psVars, catVars, dtVars, pfVars, epVars,
                faVars,
                rcVars,
                rlVars,
                btVars>>

NextOrder == OrderSort

SpecOrder == InitOrder /\ [][NextOrder]_vars

(***************************************************************************)
(* fetch_case_details on its own: the arguments and the upstream's answer  *)
(* to each of the requests the call may issue are drawn from every         *)
(* combination within the bounds.                                          *)
(***************************************************************************)
InitFetchDetails ==
    /\ InitMain /\ IdleExcept("fetch_case_details")
    /\ fdIn \in [case_number : {CaseNumber}, case_id : CaseIds,
                 responses : ResponseSeqs]
    /\ fdOut = NoFdOut

FdCall ==
    /\ ~fdOut.called
    /\ LET out == FetchCaseDetails(fdIn.case_number, fdIn.case_id, fdIn.responses)
       IN fdOut' = [called |-> TRUE, result |-> out.result,
                    requests |-> out.requests]
    /\ UNCHANGED <<mainVars, ordVars, detVars, fdIn, npVars, psVars, catVars, dtVars, pfVars, epVars,
                faVars,
                rcVars,
                rlVars,
                btVars>>

NextFetchDetails == FdCall

SpecFetchDetails == InitFetchDetails /\ [][NextFetchDetails]_vars

(***************************************************************************)
(* The callers of fetch_case_details and the attempt counter of one Case.  *)
(* A caller that awaits the collector is suspended between its query and   *)
(* its update; the Case object it holds keeps the column values it loaded. *)
(***************************************************************************)
InitDetails ==
    /\ InitMain /\ IdleExcept("details")
    /\ detCase \in {NewCase(c) : c \in CaseIds}
    /\ detCalls = [c \in 1..MaxDetCalls |-> NoCall]
    /\ detOps = 0
    /\ detLast = NoDetOp
    /\ detAnswer = NoReply

DetUnchanged ==
    UNCHANGED <<mainVars, ordVars, fdVars, npVars, psVars, catVars, dtVars, pfVars, epVars,
                faVars,
                rcVars,
                rlVars,
                btVars>>

\* fetch_case_details_background: the collector is called without case_id and
\* returns before its first await, so the task runs without suspension.
FetchCaseDetailsBackground ==
    /\ detOps < MaxDetOps
    /\ LET counted == detCase.details_fetch_attempts + 1
           details == FetchCaseDetails(CaseNumber, NoCaseId, <<>>).result
           after == IF details.found THEN counted
                    ELSE IF counted < RetryCeiling THEN counted - 1
                    ELSE counted
       IN /\ detCase' = [detCase EXCEPT
                            !.details_fetch_attempts = after,
                            !.details_fetched = IF details.found THEN TRUE ELSE @]
          /\ detLast' = [op |-> "background",
                         before |-> detCase.details_fetch_attempts,
                         after |-> after, failed |-> ~details.found]
    /\ detOps' = detOps + 1
    /\ UNCHANGED <<detCalls, detAnswer>>
    /\ DetUnchanged

\* The query of a caller that awaits the collector: the Case is loaded.
DetBegin(c, op) ==
    /\ detOps < MaxDetOps
    /\ detCalls' = [detCalls EXCEPT
                       ![c] = [op |-> op, snap |-> detCase.details_fetch_attempts]]
    /\ detOps' = detOps + 1
    /\ UNCHANGED <<detCase, detLast, detAnswer>>
    /\ DetUnchanged

\* The update after the await: the counter is written as loaded value + 1.
DetEnd(c, found, failed, counts) ==
    /\ LET after == IF counts THEN detCalls[c].snap + 1
                    ELSE detCase.details_fetch_attempts
       IN /\ detCase' = [detCase EXCEPT
                            !.details_fetch_attempts = after,
                            !.details_fetched = IF found THEN TRUE ELSE @]
          /\ detLast' = [op |-> detCalls[c].op,
                         before |-> detCase.details_fetch_attempts,
                         after |-> after, failed |-> failed]
    /\ detCalls' = [detCalls EXCEPT ![c] = NoCall]
    /\ UNCHANGED detOps
    /\ DetUnchanged

\* POST /admin/fetch-bookmarked-details selects the Case while details_fetched
\* is false or NULL.
BookmarkedBegin ==
    \E c \in 1..MaxDetCalls :
        /\ detCalls[c] = NoCall
        /\ ~detCase.details_fetched
        /\ DetBegin(c, "bookmarked")

\* fetch_details_background counts the attempt on every outcome.
BookmarkedEnd ==
    \E c \in 1..MaxDetCalls, details \in DetailResults[detCase.case_id],
       raised \in BOOLEAN :
        /\ detCalls[c].op = "bookmarked"
        /\ LET found == ~raised /\ details.found
           IN DetEnd(c, found, ~found, TRUE)
        /\ UNCHANGED detAnswer

\* POST /cases/{case_id}/fetch-details
SingleBegin ==
    \E c \in 1..MaxDetCalls :
        /\ detCalls[c] = NoCall
        /\ DetBegin(c, "single")

SingleEnd ==
    \E c \in 1..MaxDetCalls, details \in DetailResults[detCase.case_id],
       raised \in BOOLEAN :
        /\ detCalls[c].op = "single"
        /\ LET found == ~raised /\ details.found
           IN DetEnd(c, found, ~found, ~found)
        \* both returns answer 200; the handler of an exception raises the 500
        /\ detAnswer' = [known |-> TRUE,
                         status_code |-> IF raised THEN 500 ELSE 200,
                         requests |-> 1,
                         mutated |-> detCase' # detCase]

\* POST /cases/{case_id}/fetch-details with an id no Case has: the query
\* gives None, the HTTPException(404) is raised inside the try and caught by
\* "except Exception", whose first statement reads an attribute of None; the
\* AttributeError leaves the endpoint and the framework answers 500.  The
\* collector is not constructed and nothing is written.
SingleUnknown ==
    /\ detOps < MaxDetOps
    /\ detAnswer' = [known |-> FALSE, status_code |-> 500, requests |-> 0,
                     mutated |-> FALSE]
    /\ detOps' = detOps + 1
    /\ UNCHANGED <<detCase, detCalls, detLast>>
    /\ DetUnchanged

\* scripts/fetch_bookmarked_details.py selects the Case while details_fetched
\* is false.
ScriptBegin ==
    \E c \in 1..MaxDetCalls :
        /\ detCalls[c] = NoCall
        /\ ~detCase.details_fetched
        /\ DetBegin(c, "script")

ScriptEnd ==
    \E c \in 1..MaxDetCalls, details \in DetailResults[detCase.case_id],
       raised \in BOOLEAN :
        /\ detCalls[c].op = "script"
        /\ LET found == ~raised /\ details.found
           IN DetEnd(c, found, ~found, ~found)
        /\ UNCHANGED detAnswer

NextDetails ==
    \/ FetchCaseDetailsBackground
    \/ BookmarkedBegin
    \/ BookmarkedEnd
    \/ SingleBegin
    \/ SingleEnd
    \/ SingleUnknown
    \/ ScriptBegin
    \/ ScriptEnd

SpecDetails == InitDetails /\ [][NextDetails]_vars

(***************************************************************************)
(* _get_next_page_data on its own, over every page within the bounds.      *)
(***************************************************************************)
InitNextPage ==
    /\ InitMain /\ IdleExcept("next_page")
    /\ npIn \in Markups
    /\ npOut = NoNpOut

GetNextPageData ==
    /\ ~npOut.called
    /\ npOut' = [called |-> TRUE, out |-> NextPageData(npIn)]
    /\ UNCHANGED <<mainVars, ordVars, detVars, fdVars, npIn, psVars, catVars, dtVars, pfVars, epVars,
                faVars,
                rcVars,
                rlVars,
                btVars>>

NextNextPage == GetNextPageData

SpecNextPage == InitNextPage /\ [][NextNextPage]_vars

(***************************************************************************)
(* _parse_cases on its own, over every search page within the bounds.      *)
(***************************************************************************)
InitParse ==
    /\ InitMain /\ IdleExcept("parse_cases")
    /\ psIn \in SearchPages
    /\ psOut = NoPsOut

ParseCasesCall ==
    /\ ~psOut.called
    /\ psOut' = [called |-> TRUE, cases |-> ParseCases(psIn),
                 results |-> ParseSearchResults(psIn)]
    /\ UNCHANGED <<mainVars, ordVars, detVars, fdVars, npVars, psIn, catVars, dtVars, pfVars, epVars,
                faVars,
                rcVars,
                rlVars,
                btVars>>

NextParse == ParseCasesCall

SpecParse == InitParse /\ [][NextParse]_vars

(***************************************************************************)
(* batch_categorize_with_progress on its own: the selected cases and the   *)
(* collaborator's answer for each are drawn from every list within the     *)
(* bounds.                                                                 *)
(***************************************************************************)
InitCategorize ==
    /\ InitMain /\ IdleExcept("categorization")
    /\ catIn \in SeqsUpTo(Answers, MaxBatch)
    /\ catPc = "query"
    /\ catPos = 0
    /\ catCalls = 0
    /\ catResults = NoResults
    /\ catInFlight = {}
    /\ catTasks = [n \in 1..Len(catIn) |-> PendingCase]
    /\ catYields = <<>>
    /\ catCommitted = {}
    /\ catBroken = FALSE
    /\ catFaultAt = {}

CatUnchanged == UNCHANGED <<mainVars, ordVars, detVars, fdVars, npVars, psVars, dtVars, pfVars, epVars,
                faVars,
                rcVars,
                rlVars,
                btVars>>

\* The query found no case: one snapshot with status completed is yielded.
CatEmpty ==
    /\ catPc = "query"
    /\ Len(catIn) = 0
    /\ catResults' = [NoResults EXCEPT !.status = "completed"]
    /\ catYields' = Append(catYields, Snapshot(catResults'))
    /\ catPc' = "done"
    /\ UNCHANGED <<catIn, catPos, catCalls, catInFlight, catTasks>>
    /\ UNCHANGED <<catCommitted, catBroken, catFaultAt>>
    /\ CatUnchanged

\* The query found cases: results is initialised.
CatQuery ==
    /\ catPc = "query"
    /\ Len(catIn) > 0
    /\ catResults' = [NoResults EXCEPT !.total_cases = Len(catIn),
                                       !.status = "in_progress"]
    /\ catPc' = "gather"
    /\ UNCHANGED <<catIn, catPos, catCalls, catInFlight, catTasks, catYields>>
    /\ UNCHANGED <<catCommitted, catBroken, catFaultAt>>
    /\ CatUnchanged

\* tasks = [...]; asyncio.gather(*tasks): every case of the next chunk is
\* sent to the collaborator.
CatGather ==
    /\ catPc = "gather"
    /\ LET last == ChunkEnd(catPos, Len(catIn))
       IN /\ catCalls' = last
          /\ catInFlight' = catInFlight \cup ((catPos + 1)..last)
          /\ catTasks' = [n \in 1..Len(catTasks) |->
                             IF n \in (catPos + 1)..last
                             THEN [catTasks[n] EXCEPT !.calls = @ + 1]
                             ELSE catTasks[n]]
    /\ catPc' = "await"
    /\ UNCHANGED <<catIn, catPos, catResults, catYields>>
    /\ UNCHANGED <<catCommitted, catBroken, catFaultAt>>
    /\ CatUnchanged

\* One _categorize_case of the chunk returns; the await of gather ends when
\* the last one has returned.
CatAnswer ==
    /\ catPc = "await"
    /\ \E n \in catInFlight :
          LET after == CategorizedCase(catIn[n])
          IN /\ catTasks' = [catTasks EXCEPT
                                ![n].done = TRUE,
                                ![n].success = CategorizeCase(catIn[n]),
                                ![n].primary_category = after.primary_category,
                                ![n].category_confidence =
                                    after.category_confidence]
             /\ catInFlight' = catInFlight \ {n}
             /\ catPc' = IF catInFlight = {n} THEN "record" ELSE "await"
    /\ UNCHANGED <<catIn, catPos, catCalls, catResults, catYields>>
    /\ UNCHANGED <<catCommitted, catBroken, catFaultAt>>
    /\ CatUnchanged

\* The store failures that can still be injected into the round's commit.
CommitFaultChoices ==
    IF Cardinality(catFaultAt) < MaxCommitFaults THEN {FALSE, TRUE} ELSE {FALSE}

\* The objects db.commit() flushes: every case a task has changed whose
\* changes are not in the store yet.
Unflushed == {n \in 1..Len(catTasks) : catTasks[n].done} \ catCommitted

\* One round of "for case, success, error in batch_results", to its yield:
\* the counters, the commit of lines 207-211 (a commit that raises is caught
\* and reported, and no rollback follows), the yield.
CatRecord ==
    /\ catPc = "record"
    /\ \E cf \in CommitFaultChoices :
        LET success == catTasks[catPos + 1].success
            raises == catBroken \/ cf
        IN /\ catResults' = [catResults EXCEPT
                                !.successful = IF success THEN @ + 1 ELSE @,
                                !.failed = IF success THEN @ ELSE @ + 1,
                                !.processed = @ + 1,
                                !.errors = @ + (IF success THEN 0 ELSE 1)
                                             + (IF raises THEN 1 ELSE 0)]
           /\ catCommitted' = IF raises THEN catCommitted
                              ELSE catCommitted \cup Unflushed
           /\ catBroken' = raises
           /\ catFaultAt' = IF cf THEN catFaultAt \cup {catPos + 1} ELSE catFaultAt
    /\ catPos' = catPos + 1
    /\ catPc' = IF catPos + 1 < catCalls THEN "record"
                ELSE IF catCalls < Len(catIn) THEN "gather"
                ELSE "final"
    /\ catYields' = Append(catYields, Snapshot(catResults'))
    /\ UNCHANGED <<catIn, catCalls, catInFlight, catTasks>>
    /\ CatUnchanged

\* "Set final status" and the last yield.
CatFinal ==
    /\ catPc = "final"
    /\ catResults' = [catResults EXCEPT
                         !.status = FinalStatus(catResults.failed,
                                                catResults.total_cases)]
    /\ catYields' = Append(catYields, Snapshot(catResults'))
    /\ catPc' = "done"
    /\ UNCHANGED <<catIn, catPos, catCalls, catInFlight, catTasks>>
    /\ UNCHANGED <<catCommitted, catBroken, catFaultAt>>
    /\ CatUnchanged

NextCategorize ==
    \/ CatEmpty
    \/ CatQuery
    \/ CatGather
    \/ CatAnswer
    \/ CatRecord
    \/ CatFinal

SpecCategorize == InitCategorize /\ [][NextCategorize]_vars

(***************************************************************************)
(* Date parsing as a specification of its own: a value is drawn and one of *)
(* the two functions is applied to it.                                     *)
(***************************************************************************)
InitDate ==
    /\ InitMain
    /\ IdleExcept("date")
    /\ dtIn \in DateValues
    /\ dtOut = NoDtOut

DtUnchanged ==
    UNCHANGED <<mainVars, ordVars, detVars, fdVars, npVars, psVars, catVars,
                pfVars, epVars,
                faVars,
                rcVars,
                rlVars,
                btVars>>

\* parse_date(dtIn); every exception raised after line 14 is caught there.
ParseDateCall ==
    /\ ~dtOut.called
    /\ dtOut' = [called |-> TRUE, fn |-> "parse_date", raised |-> FALSE,
                 value |-> parse_date(dtIn)]
    /\ UNCHANGED dtIn
    /\ DtUnchanged

\* self._parse_date(dtIn) of the collector, on a cell text or None.
CollectorParseDateCall ==
    /\ ~dtOut.called
    /\ dtIn.kind # "ts"
    /\ dtOut' = [called |-> TRUE, fn |-> "_parse_date", raised |-> FALSE,
                 value |-> CollectorParseDate(dtIn)]
    /\ UNCHANGED dtIn
    /\ DtUnchanged

NextDate == ParseDateCall \/ CollectorParseDateCall
SpecDate == InitDate /\ [][NextDate]_vars

(***************************************************************************)
(* One call of _collect_data_for_lan as a specification of its own; the    *)
(* portal answers every request with any of PortalAnswers.                 *)
(***************************************************************************)
InitPortal ==
    /\ InitMain
    /\ IdleExcept("portal_session")
    /\ PfIdle

PfUnchanged ==
    UNCHANGED <<mainVars, ordVars, detVars, fdVars, npVars, psVars, catVars,
                dtVars, epVars,
                faVars,
                rcVars,
                rlVars,
                btVars>>

\* _collect_data_for_lan(lan_name) is called: the first pass of its loop
\* resets the session and is about to send the GET.
CollectDataForLan ==
    /\ pfPc = "idle"
    /\ pfPc' = "get"
    /\ UNCHANGED <<pfRetryCount, pfTries, pfRequests, pfLast, pfOut>>
    /\ PfUnchanged

\* One request of self.session.get(initial_url) goes out and is answered.
\* The adapter sends it again after an answer of status_forcelist or a
\* network error while it has retries left, and raises a RequestException
\* when it has none; the loop then counts one retry, and so it does for
\* every other answer that is not a 200.
SessionGet ==
    /\ pfPc = "get"
    /\ \E answer \in PortalAnswers :
          /\ pfRequests' = pfRequests + 1
          /\ pfLast' = answer
          /\ IF answer \in status_forcelist \cup {NetworkError}
             THEN IF pfTries < RetryTotal
                  THEN /\ pfTries' = pfTries + 1
                       /\ UNCHANGED <<pfPc, pfRetryCount, pfOut>>
                  ELSE /\ pfTries' = 0
                       /\ pfRetryCount' = pfRetryCount + 1
                       /\ IF pfRetryCount + 1 >= MaxRetriesForLan
                          THEN pfPc' = "done" /\ pfOut' = "raises"
                          ELSE UNCHANGED <<pfPc, pfOut>>
             ELSE IF answer = 200
             THEN /\ pfPc' = "done"
                  /\ pfOut' = "results"
                  /\ UNCHANGED <<pfRetryCount, pfTries>>
             ELSE /\ pfTries' = 0
                  /\ pfRetryCount' = pfRetryCount + 1
                  /\ IF pfRetryCount + 1 >= MaxRetriesForLan
                     THEN pfPc' = "done" /\ pfOut' = "empty"
                     ELSE UNCHANGED <<pfPc, pfOut>>
    /\ PfUnchanged

NextPortal == CollectDataForLan \/ SessionGet
SpecPortal == InitPortal /\ [][NextPortal]_vars

(***************************************************************************)
(* The fetch-cases endpoint as a specification of its own: one client      *)
(* posts requests while earlier runs are still going through their         *)
(* partitions.                                                             *)
(***************************************************************************)
InitEndpoint ==
    /\ InitMain
    /\ IdleExcept("endpoint")
    /\ EpIdle

EpUnchanged ==
    UNCHANGED <<mainVars, ordVars, detVars, fdVars, npVars, psVars, catVars,
                dtVars, pfVars,
                faVars,
                rcVars,
                rlVars,
                btVars>>

\* POST /admin/fetch-cases: check_rate_limit raises 429 when the client has
\* MAX_REQUESTS recent requests; otherwise the request is noted and
\* fetch_cases_background is added as a background task.
FetchCasesCall ==
    /\ Len(bgRuns) + rejected < MaxCalls
    /\ LET recent == Recent(rate_limit_store, clock)
       IN IF Len(recent) >= MAX_REQUESTS
          THEN /\ rate_limit_store' = recent
               /\ rejected' = rejected + 1
               /\ UNCHANGED bgRuns
          ELSE /\ rate_limit_store' = Append(recent, clock)
               /\ bgRuns' = Append(bgRuns, [at |-> 0])
               /\ UNCHANGED rejected
    /\ UNCHANGED clock
    /\ EpUnchanged

\* A run leaves the fetch loop of one partition and enters that of the next
\* one in lan_list, where it awaits a page; after the last it completes.
RunNextLan ==
    /\ \E r \in 1..Len(bgRuns) :
          /\ bgRuns[r].at <= Len(lan_list)
          /\ bgRuns' = [bgRuns EXCEPT ![r].at = @ + 1]
    /\ UNCHANGED <<rate_limit_store, clock, rejected>>
    /\ EpUnchanged

\* time passes
ClockTick ==
    /\ clock < MaxClock
    /\ clock' = clock + ClockStep
    /\ UNCHANGED <<rate_limit_store, bgRuns, rejected>>
    /\ EpUnchanged

NextEndpoint == FetchCasesCall \/ RunNextLan \/ ClockTick
SpecEndpoint == InitEndpoint /\ [][NextEndpoint]_vars

(***************************************************************************)
(* fetch_all_cases as a specification of its own: the stored row, the      *)
(* list and the classification answers are drawn from every combination    *)
(* within the bounds; the script runs at time MaxTime.                     *)
(***************************************************************************)
InitScript ==
    /\ InitMain /\ IdleExcept("script")
    /\ faStore \in StoredScriptCases
    /\ faDirty = NoScriptCase
    /\ faBatch = <<>>
    /\ faStatus \in {NoStatus, StatusRow(NewFetchStatus("Blekinge", NULL, 0, 1, TRUE))}
    /\ faIn \in SeqsUpTo(ListedCases, MaxListed)
    /\ faPos = 0
    /\ faPc = "start"

FaUnchanged ==
    UNCHANGED <<mainVars, ordVars, detVars, fdVars, npVars, psVars, catVars, dtVars,
                pfVars, epVars,
                rcVars,
                rlVars,
                btVars>>

\* Lines 111-127: the FetchStatus is read, or created and committed; the
\* list is fetched.
ScriptStart ==
    /\ faPc = "start"
    /\ faStatus' = IF faStatus.ex THEN faStatus
                   ELSE StatusRow(NewFetchStatus("Blekinge", NULL, 0, 0, FALSE))
    /\ faPc' = "loop"
    /\ UNCHANGED <<faStore, faDirty, faBatch, faIn, faPos>>
    /\ FaUnchanged

\* Lines 130-204: one case of the list.  The query returns the session's
\* object of a stored row, with the changes made to it so far.
ScriptRecord ==
    /\ faPc = "loop"
    /\ faPos < Len(faIn)
    /\ LET case_data == faIn[faPos + 1]
           existing_case == IF faDirty.ex THEN faDirty ELSE faStore
           case == ClassifiedCase(
                       PreparedCase(existing_case,
                                    prepare_case_data(case_data, MaxTime)),
                       case_data.answer)
           batch2 == IF ~existing_case.ex /\ case.is_medla_suitable
                     THEN Append(faBatch, case) ELSE faBatch
       IN IF ~needs_update(existing_case, case_data)
            THEN UNCHANGED <<faStore, faDirty, faBatch, faPc>>
          ELSE IF existing_case.ex
            THEN /\ faDirty' = case
                 /\ UNCHANGED <<faStore, faBatch, faPc>>
          ELSE IF Len(batch2) >= ScriptBatchSize
            THEN /\ faStore' = batch2[1]
                 /\ faBatch' = <<>>
                 /\ UNCHANGED <<faDirty, faPc>>
          ELSE /\ faBatch' = batch2
               /\ UNCHANGED <<faStore, faDirty, faPc>>
    /\ faPos' = faPos + 1
    /\ UNCHANGED <<faStatus, faIn>>
    /\ FaUnchanged

\* Lines 206-211: the rest of the batch is saved and committed.  Two new
\* Case objects with the same id make bulk_save_objects raise; the handler
\* of lines 223-231 then meets a session that refuses work, its commit
\* raises as well, and the pass over the lan ends with nothing written.
ScriptFlush ==
    /\ faPc = "loop"
    /\ faPos = Len(faIn)
    /\ IF Len(faBatch) > 1
         THEN /\ faPc' = "done"
              /\ faDirty' = NoScriptCase
              /\ UNCHANGED faStore
       ELSE /\ faPc' = "status"
            /\ faStore' = IF faBatch # <<>> THEN faBatch[1] ELSE faStore
            /\ UNCHANGED faDirty
    /\ faBatch' = <<>>
    /\ UNCHANGED <<faStatus, faIn, faPos>>
    /\ FaUnchanged

\* Lines 213-219: the pass is recorded on the FetchStatus and committed; the
\* commit flushes every changed object of the session.
ScriptStatus ==
    /\ faPc = "status"
    /\ faStatus' = [faStatus EXCEPT !.last_successful_fetch = MaxTime,
                                    !.error_count = 0, !.last_error = FALSE]
    /\ faStore' = IF faDirty.ex THEN faDirty ELSE faStore
    /\ faDirty' = NoScriptCase
    /\ faPc' = "done"
    /\ UNCHANGED <<faBatch, faIn, faPos>>
    /\ FaUnchanged

NextScript == ScriptStart \/ ScriptRecord \/ ScriptFlush \/ ScriptStatus
SpecScript == InitScript /\ [][NextScript]_vars

(***************************************************************************)
(* The reconciliation of a re-sighted record as a specification of its     *)
(* own, over every stored Case and every record within the bounds.         *)
(***************************************************************************)
InitReconcile ==
    /\ InitMain /\ IdleExcept("reconcile")
    /\ rcCase \in StoredCases
    /\ rcIn \in {CaseRow(c) : c \in SightedRecords}
    /\ rcOut = NoRcOut

RcUnchanged ==
    UNCHANGED <<mainVars, ordVars, detVars, fdVars, npVars, psVars, catVars, dtVars,
                pfVars, epVars, faVars,
                rlVars,
                btVars>>

\* Lines 311-321 of the backfill loop: existing_case is found.
ReconcileBackfill ==
    /\ rcOut.called = ""
    /\ rcOut' = [called |-> "backfill",
                 after |-> IF NeedsUpdate(rcCase, rcIn)
                           THEN ApplyCaseData(rcCase, rcIn) ELSE rcCase]
    /\ UNCHANGED <<rcCase, rcIn>>
    /\ RcUnchanged

\* Lines 438-445 of the update check: existing_case is found.
ReconcileUpdateCheck ==
    /\ rcOut.called = ""
    /\ rcOut' = [called |-> "update_check", after |-> ApplyCaseData(rcCase, rcIn)]
    /\ UNCHANGED <<rcCase, rcIn>>
    /\ RcUnchanged

NextReconcile == ReconcileBackfill \/ ReconcileUpdateCheck
SpecReconcile == InitReconcile /\ [][NextReconcile]_vars

(***************************************************************************)
(* check_rate_limit as a specification of its own: the clients send admin  *)
(* requests at any time while the clock moves on.                          *)
(***************************************************************************)
InitRateLimit ==
    /\ InitMain /\ IdleExcept("rate_limit")
    /\ RlIdle

RlUnchanged ==
    UNCHANGED <<mainVars, ordVars, detVars, fdVars, npVars, psVars, catVars, dtVars,
                pfVars, epVars, faVars, rcVars,
                btVars>>

RlCalls ==
    LET Sum[S \in SUBSET Clients] ==
            IF S = {} THEN 0
            ELSE LET ip == CHOOSE x \in S : TRUE
                 IN Len(rlAccepted[ip]) + rlRejected[ip] + Sum[S \ {ip}]
    IN Sum[Clients]

\* An admin endpoint calls check_rate_limit(request.client.host).
CheckRateLimit ==
    /\ RlCalls < MaxChecks
    /\ \E ip \in Clients :
          LET checked == check_rate_limit(rlStore[ip], rlNow)
          IN /\ rlStore' = [rlStore EXCEPT ![ip] = checked.stamps]
             /\ rlAccepted' = IF checked.raises THEN rlAccepted
                              ELSE [rlAccepted EXCEPT ![ip] = Append(@, rlNow)]
             /\ rlRejected' = IF checked.raises
                              THEN [rlRejected EXCEPT ![ip] = @ + 1]
                              ELSE rlRejected
    /\ UNCHANGED rlNow
    /\ RlUnchanged

\* time passes
RlTick ==
    /\ rlNow < MaxClock
    /\ rlNow' = rlNow + ClockStep
    /\ UNCHANGED <<rlStore, rlAccepted, rlRejected>>
    /\ RlUnchanged

NextRateLimit == CheckRateLimit \/ RlTick
SpecRateLimit == InitRateLimit /\ [][NextRateLimit]_vars

(***************************************************************************)
(* The fetch-bookmarked-details task as a specification of its own: the    *)
(* selected cases and the result of each fetch are drawn from every list   *)
(* within the bounds.                                                      *)
(***************************************************************************)
InitDetailsTask ==
    /\ InitMain /\ IdleExcept("details_task")
    /\ btIn \in SeqsUpTo(FetchResults, MaxBookmarked)
    /\ btPc = "start"
    /\ btPos = 0
    /\ processed_cases = 0
    /\ btTask = NoTask

BtUnchanged ==
    UNCHANGED <<mainVars, ordVars, detVars, fdVars, npVars, psVars, catVars, dtVars,
                pfVars, epVars, faVars, rcVars, rlVars>>

\* Lines 500-515 and 574-579: no task is registered when nothing is
\* selected; otherwise the task is registered and started.
FetchBookmarkedDetails ==
    /\ btPc = "start"
    /\ IF btIn = <<>>
         THEN btPc' = "skipped" /\ UNCHANGED btTask
         ELSE btPc' = "update" /\ btTask' = track_task_progress(Len(btIn))
    /\ UNCHANGED <<btIn, btPos, processed_cases>>
    /\ BtUnchanged

\* Lines 523-528: the progress is published before the case is fetched.
BtUpdate ==
    /\ btPc = "update"
    /\ btTask' = update_task_progress(btTask, PercentOf(processed_cases, Len(btIn)),
                                      btTask.total, btTask.processed)
    /\ btPc' = "fetch"
    /\ UNCHANGED <<btIn, btPos, processed_cases>>
    /\ BtUnchanged

\* Lines 530-566: the fetch returns or raises, and the outcome is published.
BtFetched ==
    /\ btPc = "fetch"
    /\ LET fetched == btIn[btPos + 1]
           counted == IF fetched = "details" THEN processed_cases + 1
                      ELSE processed_cases
           progress == IF fetched = "details" THEN PercentOf(counted, Len(btIn))
                       ELSE NoProgress
       IN /\ processed_cases' = counted
          /\ btTask' = update_task_progress(btTask, progress, btTask.total,
                                            btTask.processed)
    /\ btPos' = btPos + 1
    /\ btPc' = IF btPos + 1 < Len(btIn) THEN "update" ELSE "complete"
    /\ UNCHANGED btIn
    /\ BtUnchanged

\* Lines 568-572: complete_task(task_id, True, ...).
BtComplete ==
    /\ btPc = "complete"
    /\ btTask' = complete_task(btTask, TRUE)
    /\ btPc' = "done"
    /\ UNCHANGED <<btIn, btPos, processed_cases>>
    /\ BtUnchanged

NextDetailsTask == FetchBookmarkedDetails \/ BtUpdate \/ BtFetched \/ BtComplete
SpecDetailsTask == InitDetailsTask /\ [][NextDetailsTask]_vars

(***************************************************************************)
(* Properties.                                                             *)
(***************************************************************************)

\* C1: if a run was killed while partition P's durable checkpoint had
\* last_page_fetched = N (N >= 1), the next run still treats P as backfilling
\* and the first page it requests for P is N+1: no page of 1..N is requested
\* again and page N+1 is not skipped.
C1_ResumesAtNextPage ==
    afterCrash =>
      \A lan \in Lans :
        LET ck == ckptAtStart[lan]
        IN (ck.ex /\ ck.last_page_fetched > 0) =>
             /\ requested[lan].first \in {0, ck.last_page_fetched + 1}
             /\ \A pg \in requested[lan].pages : pg > ck.last_page_fetched
             /\ pc \in RunningPcs \ {"classify"} =>
                  \E n \in 1..Len(incomplete_lan) : incomplete_lan[n].lan = lan

C3_UnchangedPageNoMutation == unchangedPage => pageMutations = 0

\* C4: when reconciliation meets a row whose Case is already stored and whose
\* last_updated_from_source is strictly newer than the stored one, it makes
\* exactly one update of that Case and the Case then holds the incoming values.
C4_NewerSightingUpdatesOnce ==
    (/\ lastRecon.kind \in {"insert", "update", "skip"}
     /\ lastRecon.before.ex
     /\ lastRecon.incoming.last_updated_from_source
          > lastRecon.before.last_updated_from_source)
    => /\ lastRecon.kind = "update"
       /\ lastRecon.updates = 1
       /\ lastRecon.after = lastRecon.incoming

\* C4's case: a stored Case was sighted again with a newer timestamp and a
\* different content, and has been reconciled.
C4_Witness ==
    /\ lastRecon.kind = "update"
    /\ lastRecon.before.ex
    /\ lastRecon.incoming.last_updated_from_source
         > lastRecon.before.last_updated_from_source
    /\ lastRecon.incoming.val # lastRecon.before.val
    /\ lastRecon.after.val = lastRecon.incoming.val

\* C5: no insert is attempted for an id that is already stored or already
\* pending insertion: the Cases waiting in the session have distinct ids, none
\* of them the id of a stored Case.
C5_NoInsertForKnownId ==
    \A a \in 1..Len(sNew) :
        /\ ~dbCases[sNew[a].id].ex
        /\ \A b \in 1..Len(sNew) : a # b => sNew[a].id # sNew[b].id

\* C6: while the run is in its incremental-update pass, every partition has a
\* checkpoint with last_successful_fetch set: no partition is incomplete.
C6_UpdatePassOnlyWhenAllComplete ==
    pc \in {"up_est", "up_start", "up_fetch", "up_rec", "up_commit", "up_status",
            "up_except"} =>
      \A lan \in Lans :
        dbStatus[lan].ex /\ dbStatus[lan].last_successful_fetch # NULL

\* C6's case: the update pass is fetching a partition's update-check page.
C6_Witness ==
    /\ pc = "up_fetch"
    /\ \A lan \in Lans : dbStatus[lan].last_successful_fetch # NULL

\* C7: in the sorted list a partition interrupted mid-fetch (a status with
\* last_page_fetched > 0) never comes after one that was not; of two
\* interrupted ones the one with more pages fetched never comes first; and
\* with the same standing the greater name never comes first.  The sorted
\* list holds the tuples of the unsorted one.
C7_SelectionOrder ==
    ordOut # <<>> =>
      /\ Len(ordOut) = Len(ordIn)
      /\ \A x \in OrdTuples :
           Cardinality({n \in 1..Len(ordOut) : ordOut[n] = x})
             = Cardinality({n \in 1..Len(ordIn) : ordIn[n] = x})
      /\ \A m, n \in 1..Len(ordOut) :
           m < n =>
             LET a == ordOut[m]
                 b == ordOut[n]
                 ia == a.st = "obj" /\ a.lpf > 0
                 ib == b.st = "obj" /\ b.lpf > 0
             IN /\ ib => ia
                /\ (ia /\ ib) => a.lpf <= b.lpf
                /\ ((ia <=> ib) /\ a.lpf = b.lpf) => LanRank(a.lan) <= LanRank(b.lan)

\* C7's case: a never-fetched partition was listed before an interrupted one,
\* and the sort has put the interrupted one first.
C7_Witness ==
    /\ Len(ordIn) >= 2
    /\ ordIn[1].st = "none"
    /\ ordIn[2].st = "obj" /\ ordIn[2].lpf > 0
    /\ LanRank(ordIn[1].lan) < LanRank(ordIn[2].lan)
    /\ ordOut # <<>>
    /\ ordOut[1].st = "obj" /\ ordOut[1].lpf > 0

\* C8: after a partition's handler has run, the partition's checkpoint is
\* persisted with error_count one higher than before and last_error set; and
\* when the run is over, every partition of the backfill order was attempted.
C8_FailureCountedAndRunGoesOn ==
    /\ lastFailure.happened =>
         /\ lastFailure.persisted
         /\ lastFailure.row.ex
         /\ lastFailure.row.error_count = lastFailure.errBefore + 1
         /\ lastFailure.row.last_error
    /\ pc \in {"done", "aborted"} =>
         \A n \in 1..Len(incomplete_lan) : incomplete_lan[n].lan \in attempted

\* C9: no fault leaves fetch_cases_background: the run never ends by an
\* exception that escapes it.
C9_NoFaultEscapes == pc # "aborted"

\* C10: the processed count a run publishes never goes down, and when the
\* run has ended the task has left "running" for a terminal status.
C10_ProgressAdvancesAndTaskEnds ==
    /\ ~regressed
    /\ pc \in {"done", "aborted"} => task.status \in {"completed", "failed"}

\* C11: no step lowers a partition's durable last_page_fetched, and when the
\* backfill loop starts a partition from page 1 (a new backfill) the
\* partition's last_page_fetched is 0.
C11_PageCheckpointAdvancesAndResets ==
    [][/\ \A lan \in Lans :
            dbStatus'[lan].last_page_fetched >= dbStatus[lan].last_page_fetched
       /\ (pc = "bf_start" /\ pc' = "bf_fetch" /\ current_page' = 1) =>
            dbStatus'[incomplete_lan[i].lan].last_page_fetched = 0]_vars

\* C12: while a Case's details_fetched is false, its details_fetch_attempts
\* is at most the retry ceiling of 5 (the store holds no mark that retrying
\* was stopped for a Case).
C12_AttemptsWithinCeiling ==
    ~detCase.details_fetched => detCase.details_fetch_attempts <= RetryCeiling

\* C13: a call of fetch_case_details issues at most 3 upstream requests, and
\* when every attempt fails (an exception, a status other than 200, a page
\* without a table, or a case number that does not contain the requested
\* one) the call ends and returns None.
C13_AtMostThreeRequestsThenNull ==
    fdOut.called =>
        /\ fdOut.requests <= max_retries
        /\ (\A n \in 1..max_retries :
               LET r == fdIn.responses[n]
               IN \/ r.raises
                  \/ r.status # 200
                  \/ ~r.tables
                  \/ r.id = <<>>
                  \/ ~Contains(fdIn.case_number, r.id))
             => ~fdOut.result.found

\* All three attempts were made, the last on a page of another case, and the
\* call returned None.
C13_Witness ==
    /\ fdOut.called
    /\ fdIn.case_id # NoCaseId
    /\ fdIn.responses[1].raises
    /\ fdIn.responses[2].status = 500
    /\ fdIn.responses[3].status = 200 /\ fdIn.responses[3].id = <<8, 3, 2>>
    /\ fdOut.requests = max_retries
    /\ ~fdOut.result.found

\* C14: when an attempt of fetch_case_details is answered with 404, the call
\* returns None at once: the requests it issued are those up to and
\* including the one answered 404.
C14_NotFoundEndsCall ==
    fdOut.called /\ fdIn.case_id # NoCaseId =>
        \A n \in 1..max_retries :
            (/\ ~fdIn.responses[n].raises
             /\ fdIn.responses[n].status = 404
             /\ \A m \in 1..(n - 1) :
                   LET r == fdIn.responses[m]
                   IN \/ r.raises
                      \/ r.status \notin {200, 404}
                      \/ /\ r.status = 200
                         /\ \/ ~r.tables
                            \/ r.id = <<>>
                            \/ ~Contains(fdIn.case_number, r.id))
            => ~fdOut.result.found /\ fdOut.requests = n

\* The second request is answered 404 although the third would have given
\* the case: the call issued two requests and returned None.
C14_Witness ==
    /\ fdOut.called
    /\ fdIn.case_id # NoCaseId
    /\ ~fdIn.responses[1].raises /\ fdIn.responses[1].status = 500
    /\ ~fdIn.responses[2].raises /\ fdIn.responses[2].status = 404
    /\ fdIn.responses[3].status = 200 /\ fdIn.responses[3].id = fdIn.case_number
    /\ fdOut.requests = 2
    /\ ~fdOut.result.found

\* C15: fetch_case_details returns a record only when the case number parsed
\* from the detail page is the case number that was requested.
C15_ReturnsOnlyRequestedCase ==
    fdOut.called /\ fdOut.result.found => fdOut.result.id = fdIn.case_number

\* C16: _get_next_page_data returns None when the page has no tfoot, when
\* one of the hidden inputs __VIEWSTATE, __VIEWSTATEGENERATOR,
\* __EVENTVALIDATION is missing, and when no link of the tfoot has the text
\* of the next page number and none is an ellipsis with a Page$ argument.
C16_TerminalPagesGiveNone ==
    npOut.called =>
        LET noNextLink ==
                /\ npIn.span /\ IsNumber(npIn.spanText)
                /\ NextPageLink(npIn.links, IntOf(npIn.spanText)) = 0
        IN (~npIn.tfoot \/ npIn.hidden # HiddenFields \/ noNextLink)
               => npOut.out.kind = "none"

\* C17: _get_next_page_data never raises: a link whose href has no postback
\* call or lacks the quoted target and argument, and a tfoot whose first span
\* is not a page number, give None.
C17_NextPageNeverRaises ==
    npOut.called => npOut.out.kind # "raises"

\* C18: _parse_cases returns an empty list for a case table that has only
\* its header row, and for every page it returns, in page order, exactly the
\* rows that have at least 8 cells, a case-number link, a case id, a title
\* and an ISO date: rows with fewer than 8 cells or without a link are left
\* out and do not end the parse.  _parse_search_results of the older
\* collector returns, in page order, exactly the rows with at least 8 cells
\* and a case-number link.
C18_ParseSkipsBadRowsOnly ==
    psOut.called =>
        LET rows == IF psIn.table THEN Tail(psIn.trs) ELSE <<>>
            Valid(row) ==
                /\ row.cells >= MinCells
                /\ row.link
                /\ row.number # "" \/ row.href = "CaseInfo.aspx?caseID=4668238"
                /\ row.title # ""
                /\ row.date = "2024-03-01"
            Shaped(row) == row.cells >= MinCells /\ row.link
            kept == SelectSeq(rows, Valid)
            shaped == SelectSeq(rows, Shaped)
        IN /\ rows = <<>> => psOut.cases = <<>> /\ psOut.results = <<>>
           /\ Len(psOut.results) = Len(shaped)
           /\ \A n \in 1..Len(shaped) :
                 /\ psOut.results[n].id = shaped[n].number
                 /\ psOut.results[n].title = shaped[n].title
           /\ Len(psOut.cases) = Len(kept)
           /\ \A n \in 1..Len(kept) :
                 /\ psOut.cases[n].case_id = kept[n].number
                 /\ psOut.cases[n].title = kept[n].title
                 /\ psOut.cases[n].date = kept[n].date

\* A row with 7 cells comes before a valid row, and the valid row is returned.
C18_Witness ==
    /\ psOut.called
    /\ psIn.table
    /\ Len(psIn.trs) = 3
    /\ psIn.trs[2].cells < MinCells
    /\ psIn.trs[3].link /\ psIn.trs[3].number = "831-2024"
    /\ psIn.trs[3].title # "" /\ psIn.trs[3].date = "2024-03-01"
    /\ Len(psOut.cases) = 1
    /\ psOut.cases[1].case_id = "831-2024"
    /\ Len(psOut.results) = 1

\* C19: the final snapshot of a batch has status quota_exceeded when the
\* collaborator reported exhausted quota; otherwise completed exactly when no
\* record failed, failed exactly when every record failed, and
\* completed_with_errors exactly when some but not all records failed.
C19_FinalStatus ==
    catPc = "done" =>
        LET total == Len(catIn)
            failures == Cardinality({n \in 1..total : catIn[n] # "json"})
            quota == \E n \in 1..total : catIn[n] = "quota"
            st == catResults.status
        IN /\ st \in {"completed", "failed", "completed_with_errors",
                      "quota_exceeded"}
           /\ quota => st = "quota_exceeded"
           /\ ~quota =>
                 /\ st = "completed" <=> failures = 0
                 /\ st = "failed" <=> (total > 0 /\ failures = total)
                 /\ st = "completed_with_errors" <=>
                        (0 < failures /\ failures < total)

\* C20: when the collaborator reports exhausted quota on record q, no later
\* record is sent to the collaborator, and the final snapshot has status
\* quota_exceeded and processed = q.
C20_QuotaStopsBatch ==
    \A q \in 1..Len(catIn) :
        (catIn[q] = "quota" /\ \A n \in 1..(q - 1) : catIn[n] # "quota") =>
            /\ catCalls <= q
            /\ catPc = "done" =>
                  catResults.status = "quota_exceeded" /\ catResults.processed = q

\* C21: at most 3 collaborator calls of a batch are in flight at any moment,
\* and calls are started only when no call of the previous group is still
\* in flight.
C21_AtMostThreeInFlight ==
    [][/\ Cardinality(catInFlight') <= 3
       /\ catCalls' > catCalls => catInFlight = {}]_vars

\* The second group of a batch of four starts after the three calls of the
\* first group have returned.
C21_Witness ==
    /\ Len(catIn) = 4
    /\ catCalls = 4
    /\ catInFlight = {4}
    /\ \A n \in 1..3 : catTasks[n].done

\* C22: a case whose collaborator response is not JSON ends with
\* primary_category "Error" and category_confidence 0.0, is counted in failed
\* and not in successful, and is sent to the collaborator once in the batch.
C22_ParseFailureIsErrorOnce ==
    /\ \A n \in 1..Len(catIn) :
          /\ catTasks[n].calls <= 1
          /\ (catIn[n] = "not_json" /\ catTasks[n].done) =>
                /\ catTasks[n].primary_category = "Error"
                /\ catTasks[n].category_confidence = 0
                /\ ~catTasks[n].success
    /\ catPc \in {"final", "done"} =>
          /\ catResults.failed =
                Cardinality({n \in 1..Len(catIn) : catIn[n] # "json"})
          /\ catResults.successful =
                Cardinality({n \in 1..Len(catIn) : catIn[n] = "json"})
          /\ \A n \in 1..Len(catIn) : catTasks[n].calls = 1

\* A batch with an unparseable response between two good ones has ended.
C22_Witness ==
    /\ catPc = "done"
    /\ catIn = <<"json", "not_json", "json">>
    /\ catResults.failed = 1
    /\ catResults.successful = 2
    /\ catTasks[2].primary_category = "Error"

\* C23: a batch of n cases yields n snapshots with status in_progress whose
\* processed counts are 1, 2, ..., n, and then one last snapshot with a
\* terminal status; no earlier snapshot has a terminal status.
C23_SnapshotsAdvanceByOne ==
    LET n == Len(catIn)
        Terminal == {"completed", "completed_with_errors", "failed",
                     "quota_exceeded"}
    IN /\ Len(catYields) <= n + 1
       /\ \A m \in 1..Len(catYields) :
             IF m <= n
             THEN /\ catYields[m].processed = m
                  /\ catYields[m].status = "in_progress"
             ELSE /\ catYields[m].processed = n
                  /\ catYields[m].status \in Terminal
       /\ catPc = "done" <=> Len(catYields) = n + 1

\* A batch of four has yielded its four progress snapshots and its last one.
C23_Witness ==
    /\ catPc = "done"
    /\ Len(catIn) = 4
    /\ Len(catYields) = 5
    /\ catYields[4].status = "in_progress"
    /\ catYields[5].status = "completed_with_errors"

\* C24: date parsing never raises; for None, the empty text, a text of
\* digits only and a text that names a date the calendar does not have
\* (month 13, day 32) it returns None, and a datetime is returned as it is.
ImpossibleDate(text) ==
    /\ Len(text) = 5
    /\ text[2] = Dash /\ text[4] = Dash
    /\ text[1] \in 1000..9999 /\ text[3] >= 0 /\ text[5] >= 0
    /\ text[3] \notin 1..12 \/ text[5] \notin 1..DaysIn(text[1], text[3])
C24_GarbageDatesGiveNone ==
    dtOut.called =>
        /\ ~dtOut.raised
        /\ (\/ dtIn.kind = "none"
            \/ dtIn.kind = "str" /\ dtIn.text = <<>>
            \/ dtIn.kind = "str" /\ IsDigit(dtIn.text)
            \/ dtIn.kind = "str" /\ ImpossibleDate(dtIn.text))
               => dtOut.value = None
        /\ dtIn.kind = "ts" => dtOut.value = dtIn

\* C25: one call of _collect_data_for_lan sends its GET again at most 3
\* times, and only after an answer with status 500, 502, 503 or 504 (or
\* after no answer at all): it causes at most 4 requests upstream.
C25_AtMostFourRequests ==
    [][/\ pfRequests' <= RetryTotal + 1
       /\ pfRequests' > pfRequests /\ pfRequests > 0
             => pfLast \in status_forcelist \cup {NetworkError}]_vars

\* C26: no two fetch loops for the same partition are active at the same
\* time, also when fetch-cases is called again while an earlier run is in
\* progress, and a run goes through its partitions one after another.
C26_SingleFlightPerPartition ==
    [][/\ \A r1, r2 \in 1..Len(bgRuns') :
             r1 # r2 /\ InLoop(bgRuns'[r1]) /\ InLoop(bgRuns'[r2])
                 => bgRuns'[r1].at # bgRuns'[r2].at
       /\ \A r \in 1..Len(bgRuns) :
             bgRuns'[r].at \in {bgRuns[r].at, bgRuns[r].at + 1}]_vars

\* C27: in a run that found every partition's checkpoint with
\* last_successful_fetch set and with last_page_fetched at the number of
\* pages reported, no backfill loop is entered, the update loop issues its
\* query for every partition it comes to, and once the loops are over it has
\* come to every partition.
AllCheckpointsComplete ==
    \A lan \in Lans :
        /\ ckptAtStart[lan].ex
        /\ ckptAtStart[lan].last_successful_fetch # NULL
        /\ ckptAtStart[lan].last_page_fetched >= TotalPagesReported
C27_UpdateCheckWhenAllComplete ==
    [][AllCheckpointsComplete' /\ pc' \in RunningPcs \cup {"done"} =>
          /\ pc' \notin BackfillPcs
          /\ pc = "up_start" /\ pc' \in RunningPcs => pc' = "up_fetch"
          /\ pc' \in {"final", "done"} => attempted' = Lans]_vars
\* C27's case: such a run has completed after checking every partition.
C27_Witness ==
    /\ pc = "done"
    /\ AllCheckpointsComplete
    /\ attempted = Lans
    /\ \A lan \in Lans : 1 \in requested[lan].pages

\* C28: a partition that had no checkpoint when the run began is in the
\* backfill list once the partitions are classified, the first page the run
\* requests for it is page 1, and when its backfill loop has got page 1 (with
\* or without rows) and the loops are over, the partition's checkpoint is
\* stored with last_page_fetched = 1.
C28_FirstPageCheckpointed ==
    \A lan \in Lans :
        ~ckptAtStart[lan].ex /\ pc \in RunningPcs \cup {"done"} =>
            /\ pc # "classify" =>
                   \E n \in 1..Len(incomplete_lan) : incomplete_lan[n].lan = lan
            /\ requested[lan].first \in {0, 1}
            /\ 1 \in requested[lan].answered /\ pc \in {"final", "done"} =>
                   dbStatus[lan].ex /\ dbStatus[lan].last_page_fetched = 1

C30_UnknownIdInserted ==
    lastRecon.kind \in {"insert", "update", "skip"} /\ ~lastRecon.before.ex
        => lastRecon.kind = "insert"

\* C31: a failure while reconciling one record of a page skips only that
\* record: the records of the page reconciled before it stay in the session's
\* unit of work (the Case objects added and the changes of stored rows are
\* what they were), so that the page's commit persists them, and the loop goes
\* on with the rest of the page.
C31_RecordFailureSkipsOnlyThatRecord ==
    [][pc = "bf_rec" /\ pc' # "crashed" /\ lastRecon'.kind = "error" =>
          /\ sNew' = sNew
          /\ sDirty' = sDirty
          /\ pc' \in {"bf_rec", "bf_ckpt"}]_vars

\* C32: a checkpoint's error_count counts the consecutive failed passes of
\* its partition: a pass that completes (the backfill's last page is committed,
\* or the update check reaches its completion record) leaves the partition's
\* stored checkpoint with error_count 0 and no last_error, and a failure that
\* the partition's handler has recorded leaves it one higher than it was.
C32_ErrorCountIsConsecutiveFailures ==
    [][/\ pc = "bf_ckpt" /\ ~has_next /\ pc' \in {"bf_start", "final"} =>
            /\ dbStatus'[incomplete_lan[i].lan].error_count = 0
            /\ ~dbStatus'[incomplete_lan[i].lan].last_error
       /\ pc = "up_status" /\ pc' \in {"up_start", "final"} =>
            /\ dbStatus'[lan_list[k]].error_count = 0
            /\ ~dbStatus'[lan_list[k]].last_error
       /\ pc \in {"bf_except", "up_except"} /\ pc' \notin {"aborted", "crashed"} =>
            lastFailure'.row.error_count = lastFailure'.errBefore + 1]_vars

\* C33: a partition's stored last_successful_fetch changes only when a pass
\* over that partition has completed: the page the pass requested last was
\* answered with a result; a pass whose upstream request failed (a response
\* other than 200, or an exception in the collector) leaves it as it was.
C33_LastSuccessOnlyAfterCompletePass ==
    [][\A lan \in Lans :
          dbStatus'[lan].last_successful_fetch # dbStatus[lan].last_successful_fetch =>
              current_page \in requested[lan].answered]_vars

\* C34: a failed detail fetch of a Case (a null result or an exception) is
\* counted exactly once: when the operation has ended, details_fetch_attempts
\* is one higher than it was before the operation, whichever caller ran it and
\* whether or not another detail fetch of the Case was under way.
C34_FailedFetchCountedOnce ==
    detLast.op # "none" /\ detLast.failed => detLast.after = detLast.before + 1

\* C35: when the commit of one classified record meets a store failure, the
\* failure is reported in the errors of the results, and every later record
\* of the batch is still classified and its result reaches the store.
C35_CommitFailureIsLocal ==
    /\ catFaultAt # {} => catResults.errors > catResults.failed
    /\ \A n \in 1..catPos :
          (n \notin catFaultAt /\ \E p \in catFaultAt : p < n) =>
              /\ catTasks[n].done
              /\ n \in catCommitted

\* C36: fetch_all_cases writes a Case to the store (inserts it, or changes
\* its stored row) only if the classification of that run marked it
\* Medla-suitable: a row the script has written carries is_medla_suitable.
C36_OnlySuitableCasesWritten ==
    [][faStore' # faStore => faStore'.is_medla_suitable]_vars

\* C37: reconciling a re-sighted record of a search-result page changes only
\* fields that come from the list: the stored Case keeps its details_fetched
\* and its details_fetch_attempts.
C37_ReconcileKeepsDetailState ==
    rcOut.called # "" =>
        /\ rcOut.after.details_fetched = rcCase.details_fetched
        /\ rcOut.after.details_fetch_attempts = rcCase.details_fetch_attempts

\* C38: for every client, check_rate_limit lets through at most MAX_REQUESTS
\* requests whose timestamps lie within any window of RATE_LIMIT_DURATION
\* seconds (any MAX_REQUESTS + 1 accepted requests in a row span at least the
\* duration); and a rejected request is not recorded: it adds no timestamp,
\* and a request is rejected only when MAX_REQUESTS accepted requests lie
\* within the window before it, so rejections do not prolong the lock-out.
C38_AtMostFivePerWindow ==
    [][\A ip \in Clients :
          /\ \A n \in 1..(Len(rlAccepted'[ip]) - MAX_REQUESTS) :
                rlAccepted'[ip][n + MAX_REQUESTS] - rlAccepted'[ip][n]
                    >= RATE_LIMIT_DURATION
          /\ rlRejected'[ip] > rlRejected[ip] =>
                /\ Len(rlStore'[ip]) <= Len(rlStore[ip])
                /\ rlAccepted'[ip] = rlAccepted[ip]
                /\ Cardinality(WithinWindow(rlAccepted[ip], rlNow)) >= MAX_REQUESTS]_vars

\* A client was locked out, its rejected requests were not counted, and once
\* the window had passed it was let through again.
C38_Witness ==
    \E ip \in Clients :
        /\ rlRejected[ip] > 0
        /\ Len(rlAccepted[ip]) > MAX_REQUESTS

\* C39: every progress value published for a background task (the fields
\* progress and progress_percentage, which are always assigned together) is
\* an integer between 0 and 100, after any sequence of progress updates,
\* error reports and completion.
C39_ProgressWithinPercent ==
    btTask.status # "none" => btTask.progress \in 0..100


\* C40: the single-case fetch-details operation called with an id that is
\* not in the store answers with the 404 "Case not found" error, mutates
\* nothing in the store and sends no upstream request.
C40_UnknownCaseAnswers404 ==
    (detAnswer.status_code # 0 /\ ~detAnswer.known) =>
        /\ detAnswer.status_code = 404
        /\ detAnswer.requests = 0
        /\ ~detAnswer.mutated

====
